---- MODULE Spec2Model ----
(***************************************************************************)
(* Mini SIEM: SSH brute-force detection and firewall response.            *)
(*                                                                         *)
(* The model covers the sliding-window counter (detector.py), the          *)
(* whitelist filter (config.py), the log tailer (_iter_new_lines), the      *)
(* detection loop (parse_and_detect), the firewall controller (blocker.py) *)
(* with the ipset/iptables tools it drives, the audit ledger (db.py), the  *)
(* rate limit of the notifier (notifications.py) and start-up (__main__).  *)
(***************************************************************************)
EXTENDS Integers, Sequences, FiniteSets, TLC

VARIABLES
    cfg,                \* DetectorConfig passed to every handler
    clock,              \* int(time.time())
    ip_to_timestamps,   \* SlidingWindowCounter.ip_to_timestamps
    ip_to_usernames,    \* SlidingWindowCounter.ip_to_usernames
    adds,               \* history: timestamps passed to add(), per address
    ipset_exists,       \* backend: the named set exists
    members,            \* backend: member address -> remaining timeout
    rules,              \* backend: number of matching DROP rules in the chain
    ledger,             \* audit ledger: event and action records, in append order
    call,               \* the last handler invocation and what it did
    prevCall,           \* the handler invocation before it
    running,            \* the detection loop has not been terminated
    disk,               \* file system: the file bound to each path, file contents
    orch,               \* parse_and_detect: path loop and the frame of the tailer
    emitted,            \* history: the items the tailer yielded, in order
    env,                \* the log writer and what has happened to the files
    frames,             \* the ensure_firewall calls in flight, one per process
    last_notification_time, \* NotificationManager.last_notification_time
    dispatched,         \* history: the notifications that passed the rate limit
    body                \* parse_and_detect: the position inside the loop body

vars == <<cfg, clock, ip_to_timestamps, ip_to_usernames, adds,
          ipset_exists, members, rules, ledger, call, prevCall, running,
          disk, orch, emitted, env, frames, last_notification_time, dispatched,
          body>>

\* the state of detection and of the firewall
coreVars == <<cfg, clock, ip_to_timestamps, ip_to_usernames, adds,
              ipset_exists, members, rules, ledger, call, prevCall, running>>

\* the state of the files and of the tailer
tailVars == <<disk, orch, emitted, env>>

\* the calls of ensure_firewall in flight and the state of the notifier
auxVars == <<frames, last_notification_time, dispatched, body>>

----------------------------------------------------------------------------
(* Bounds of the model *)

MaxTime == 3
MaxWindow == 2
MaxThreshold == 2
MaxAdds == 3
MaxActions == 2
MaxLines == 4
MaxRules == 2
MaxWrites == 2
MaxFiles == 2
MaxFaults == 1
MaxEntries == 2
MaxCalls == 2

----------------------------------------------------------------------------
(* Values *)

None == "None"
Addrs == {"203.0.113.7", "10.1.2.3"}

\* a token the address class of the grammars admits and ipaddress rejects
MalformedAddr == "999.1.1.1"

\* the keys the tracker can hold
Tracked == Addrs \cup {MalformedAddr}

Last(s) == s[Len(s)]

Max(a, b) == IF a >= b THEN a ELSE b

NonDecreasing(s) == \A i \in 1..(Len(s) - 1) : s[i] <= s[i + 1]

----------------------------------------------------------------------------
(* detector.py: SlidingWindowCounter *)

\* `ts or int(time.time())`: None and 0 are both falsy.
OrNow(ts) == IF ts = 0 THEN clock ELSE ts

RECURSIVE PopWhileBelow(_, _)
PopWhileBelow(q, limit) ==
    IF q # <<>> /\ q[1] < limit THEN PopWhileBelow(Tail(q), limit) ELSE q

_evict_old(q, now_ts, window_seconds) ==
    PopWhileBelow(q, now_ts - window_seconds)

\* a mutant of AddTimestamps: the timestamp is put at the front
AddTimestampsFront(q, timestamp, window_seconds) ==
    _evict_old(<<timestamp>> \o q, timestamp, window_seconds)

\* the deque of ip after add(ip, username, ts)
AddTimestamps(q, timestamp, window_seconds) ==
    _evict_old(Append(q, timestamp), timestamp, window_seconds)

AddUsernames(names, username) ==
    IF username # None /\ username # "" THEN names \cup {username} ELSE names

NoCall ==
    [op |-> "none", ip |-> "", now |-> 0, n |-> 0, ret |-> <<>>, cmds |-> <<>>,
     appended |-> 0, raised |-> FALSE, hooks |-> <<>>, decided |-> FALSE,
     line |-> <<>>, args |-> <<>>,
     pre |-> [ipset_exists |-> FALSE, member |-> FALSE, rules |-> 0]]

SumLen(f) ==
    LET RECURSIVE Sum(_)
        Sum(S) == IF S = {} THEN 0
                  ELSE LET a == CHOOSE x \in S : TRUE
                       IN  Len(f[a]) + Sum(S \ {a})
    IN  Sum(DOMAIN f)

TotalAdds == SumLen(adds)

\* SlidingWindowCounter.add(ip, username, ts)
CounterAdd(ip, username, ts) ==
    LET timestamp == OrNow(ts)
        q == AddTimestamps(ip_to_timestamps[ip], timestamp, cfg.window_seconds)
    IN  /\ TotalAdds < MaxAdds
        /\ ip_to_timestamps' = [ip_to_timestamps EXCEPT ![ip] = q]
        /\ ip_to_usernames' =
              [ip_to_usernames EXCEPT ![ip] = AddUsernames(@, username)]
        /\ adds' = [adds EXCEPT ![ip] = Append(@, timestamp)]
        /\ call' = [NoCall EXCEPT !.op = "add", !.ip = ip, !.now = timestamp,
                                  !.n = Len(q), !.args = <<username, ts>>]
        /\ UNCHANGED <<cfg, clock, ipset_exists, members, rules, ledger,
                       prevCall, running>>

\* SlidingWindowCounter.count(ip, now_ts)
CounterCount(ip, now_ts) ==
    LET now == OrNow(now_ts)
        q == IF ip_to_timestamps[ip] = <<>> THEN <<>>
             ELSE _evict_old(ip_to_timestamps[ip], now, cfg.window_seconds)
    IN  /\ ip_to_timestamps' = [ip_to_timestamps EXCEPT ![ip] = q]
        /\ call' = [NoCall EXCEPT !.op = "count", !.ip = ip, !.now = now,
                                  !.n = Len(q)]
        /\ UNCHANGED <<cfg, clock, ip_to_usernames, adds, ipset_exists, members,
                       rules, ledger, prevCall, running>>

\* time passes
Tick ==
    /\ clock < MaxTime
    /\ clock' = clock + 1
    /\ UNCHANGED <<cfg, ip_to_timestamps, ip_to_usernames, adds, ipset_exists,
                   members, rules, ledger, call, prevCall, running>>

----------------------------------------------------------------------------
(* Strings: a token is a string, Spell gives its characters *)

Spell(s) ==
    CASE s = "Name:" -> <<"N", "a", "m", "e", ":">>
      [] s = "Type:" -> <<"T", "y", "p", "e", ":">>
      [] s = "Revision:" -> <<"R", "e", "v", "i", "s", "i", "o", "n", ":">>
      [] s = "Header:" -> <<"H", "e", "a", "d", "e", "r", ":">>
      [] s = "Size" -> <<"S", "i", "z", "e">>
      [] s = "References:" -> <<"R", "e", "f", "e", "r", "e", "n", "c", "e", "s", ":">>
      [] s = "Number" -> <<"N", "u", "m", "b", "e", "r">>
      [] s = "Members:" -> <<"M", "e", "m", "b", "e", "r", "s", ":">>
      [] s = "203.0.113.7" -> <<"2", "0", "3", ".", "0", ".", "1", "1", "3", ".", "7">>
      [] s = "10.1.2.3" -> <<"1", "0", ".", "1", ".", "2", ".", "3">>
      [] s = "127.0.0.1/32" -> <<"1", "2", "7", ".", "0", ".", "0", ".", "1", "/", "3", "2">>
      [] s = "::1/128" -> <<":", ":", "1", "/", "1", "2", "8">>
      [] s = "10.0.0.0/8" -> <<"1", "0", ".", "0", ".", "0", ".", "0", "/", "8">>
      [] s = "172.16.0.0/12" -> <<"1", "7", "2", ".", "1", "6", ".", "0", ".", "0", "/", "1", "2">>
      [] s = "192.168.0.0/16" -> <<"1", "9", "2", ".", "1", "6", "8", ".", "0", ".", "0", "/", "1", "6">>
      [] s = "bogus" -> <<"b", "o", "g", "u", "s">>
      [] s = "999.1.1.1" -> <<"9", "9", "9", ".", "1", ".", "1", ".", "1">>
      [] s = "203.0.113.9/24" ->
            <<"2", "0", "3", ".", "0", ".", "1", "1", "3", ".", "9", "/", "2", "4">>

SpelledStrings ==
    {"Name:", "Type:", "Revision:", "Header:", "Size", "References:", "Number",
     "Members:", "203.0.113.7", "10.1.2.3", "127.0.0.1/32", "::1/128",
     "10.0.0.0/8", "172.16.0.0/12", "192.168.0.0/16", "bogus",
     "203.0.113.9/24", "999.1.1.1"}

\* the string with the given characters
Unspell(cs) == CHOOSE s \in SpelledStrings : Spell(s) = cs

\* the characters in code-point order
AsciiOrder ==
    <<".", "0", "1", "2", "3", "4", "5", "6", "7", "8", "9", ":", "A", "B",
    "C", "D", "E", "F", "G", "H", "I", "J", "K", "L", "M", "N", "O", "P",
    "Q", "R", "S", "T", "U", "V", "W", "X", "Y", "Z", "a", "b", "c", "d",
    "e", "f", "g", "h", "i", "j", "k", "l", "m", "n", "o", "p", "q", "r",
    "s", "t", "u", "v", "w", "x", "y", "z">>

CharCode(c) == CHOOSE i \in 1..Len(AsciiOrder) : AsciiOrder[i] = c

\* str.startswith
StartsWith(chars, prefix) ==
    Len(chars) >= Len(prefix) /\ SubSeq(chars, 1, Len(prefix)) = prefix

\* str.count of one character
CountChar(chars, c) == Cardinality({i \in 1..Len(chars) : chars[i] = c})

\* `c in str`
Contains(chars, c) == \E i \in 1..Len(chars) : chars[i] = c

\* str.__lt__: lexicographic by code point
StrLess(s, t) ==
    LET a == Spell(s)
        b == Spell(t)
    IN  \E k \in 1..(Len(a) + 1) :
           /\ k <= Len(b)
           /\ SubSeq(a, 1, k - 1) = SubSeq(b, 1, k - 1)
           /\ k > Len(a) \/ CharCode(a[k]) < CharCode(b[k])

\* sorted(set(...))
RECURSIVE Sorted(_)
Sorted(S) ==
    IF S = {} THEN <<>>
    ELSE LET m == CHOOSE x \in S : \A y \in S \ {x} : StrLess(x, y)
         IN  <<m>> \o Sorted(S \ {m})

\* str.strip() of a tool's captured text
Strip(t) == IF t \in {" ", "\n"} THEN "" ELSE t

----------------------------------------------------------------------------
(* config.py: the whitelist filter, with the ipaddress parsers it calls *)

Digits == {"0", "1", "2", "3", "4", "5", "6", "7", "8", "9"}

IsDigits(cs) == cs # <<>> /\ \A i \in 1..Len(cs) : cs[i] \in Digits

DigitVal(c) == CharCode(c) - CharCode("0")

RECURSIVE DecVal(_)
DecVal(cs) ==
    IF cs = <<>> THEN 0
    ELSE DecVal(SubSeq(cs, 1, Len(cs) - 1)) * 10 + DigitVal(cs[Len(cs)])

\* str.split(sep)
RECURSIVE Split(_, _)
Split(cs, sep) ==
    IF ~Contains(cs, sep) THEN <<cs>>
    ELSE LET k == CHOOSE i \in 1..Len(cs) :
                     cs[i] = sep /\ \A j \in 1..(i - 1) : cs[j] # sep
         IN  <<SubSeq(cs, 1, k - 1)>> \o Split(SubSeq(cs, k + 1, Len(cs)), sep)

\* ValueError
Invalid == [version |-> 0, octets |-> <<>>, prefixlen |-> 0]

\* IPv4Address: four decimal octets, none above 255, no leading zero
ParseV4(cs) ==
    LET parts == Split(cs, ".")
    IN  IF /\ Len(parts) = 4
           /\ \A i \in 1..4 :
                 /\ IsDigits(parts[i])
                 /\ Len(parts[i]) <= 3
                 /\ Len(parts[i]) > 1 => parts[i][1] # "0"
                 /\ DecVal(parts[i]) <= 255
        THEN [version |-> 4, octets |-> [i \in 1..4 |-> DecVal(parts[i])],
              prefixlen |-> 32]
        ELSE Invalid

\* IPv6Address: of the IPv6 literals only the loopback ::1 is in the model
ParseV6(cs) ==
    IF cs = <<":", ":", "1">>
    THEN [version |-> 6, octets |-> [i \in 1..16 |-> IF i = 16 THEN 1 ELSE 0],
          prefixlen |-> 128]
    ELSE Invalid

ParseAddress(cs) == IF Contains(cs, ":") THEN ParseV6(cs) ELSE ParseV4(cs)

\* ipaddress.ip_address(ip)
ip_address(ip) == ParseAddress(Spell(ip))

\* ipaddress.ip_network(net, strict=False)
ip_network(net) ==
    LET parts == Split(Spell(net), "/")
        addr == ParseAddress(parts[1])
    IN  IF addr = Invalid \/ Len(parts) > 2 THEN Invalid
        ELSE IF Len(parts) = 1 THEN addr
        ELSE IF IsDigits(parts[2]) /\ DecVal(parts[2]) <= addr.prefixlen
        THEN [addr EXCEPT !.prefixlen = DecVal(parts[2])]
        ELSE Invalid

RECURSIVE Pow2(_)
Pow2(n) == IF n = 0 THEN 1 ELSE 2 * Pow2(n - 1)

Min(a, b) == IF a <= b THEN a ELSE b

\* the number of bits of octet i the prefix does not cover
HostBits(prefixlen, i) == 8 - Min(8, Max(0, prefixlen - 8 * (i - 1)))

\* `ip_obj in network`
InNetwork(ip_obj, network) ==
    /\ ip_obj.version = network.version
    /\ \A i \in 1..Len(ip_obj.octets) :
          ip_obj.octets[i] \div Pow2(HostBits(network.prefixlen, i))
             = network.octets[i] \div Pow2(HostBits(network.prefixlen, i))

\* a mutant of InAnyNetwork: the first entry that is not a network ends the
\* evaluation
RECURSIVE InAnyNetworkUntilInvalid(_, _)
InAnyNetworkUntilInvalid(ip_obj, whitelist) ==
    IF whitelist = <<>> THEN FALSE
    ELSE LET network == ip_network(whitelist[1])
         IN  IF network = Invalid THEN FALSE
             ELSE IF InNetwork(ip_obj, network) THEN TRUE
             ELSE InAnyNetworkUntilInvalid(ip_obj, Tail(whitelist))

\* the loop over the entries of the whitelist
RECURSIVE InAnyNetwork(_, _)
InAnyNetwork(ip_obj, whitelist) ==
    IF whitelist = <<>> THEN FALSE
    ELSE LET network == ip_network(whitelist[1])
         IN  IF network = Invalid THEN InAnyNetwork(ip_obj, Tail(whitelist))
             ELSE IF InNetwork(ip_obj, network) THEN TRUE
             ELSE InAnyNetwork(ip_obj, Tail(whitelist))

\* is_ip_whitelisted(ip, whitelist)
is_ip_whitelisted(ip, whitelist) ==
    LET ip_obj == ip_address(ip)
    IN  IF ip_obj = Invalid THEN FALSE ELSE InAnyNetwork(ip_obj, whitelist)

----------------------------------------------------------------------------
(* detector.py: the two grammars; a line is its sequence of tokens *)

HexClass ==
    Digits \cup {"a", "b", "c", "d", "e", "f", "A", "B", "C", "D", "E", "F", ":", "."}

\* [0-9a-fA-F:\.]+ over a whole token
AllInClass(cs) == cs # <<>> /\ \A i \in 1..Len(cs) : cs[i] \in HexClass

NoMatch == [user |-> None, ip |-> None]

Tok(line, i) == IF i <= Len(line) THEN line[i] ELSE ""

\* FAILED_PATTERN matched at token i, with or without "invalid user "
FailedAt(line, i, skip) ==
    /\ Tok(line, i) = "Failed"
    /\ Tok(line, i + 1) = "password"
    /\ Tok(line, i + 2) = "for"
    /\ skip = 2 => (Tok(line, i + 3) = "invalid" /\ Tok(line, i + 4) = "user")
    /\ i + skip + 6 <= Len(line)
    /\ Tok(line, i + skip + 4) = "from"
    /\ AllInClass(Spell(Tok(line, i + skip + 5)))

\* FAILED_PATTERN.search(line)
FailedSearch(line) ==
    LET hits == {i \in 1..Len(line) : FailedAt(line, i, 2) \/ FailedAt(line, i, 0)}
    IN  IF hits = {} THEN NoMatch
        ELSE LET i == CHOOSE h \in hits : \A g \in hits : h <= g
                 skip == IF FailedAt(line, i, 2) THEN 2 ELSE 0
             IN  [user |-> line[i + skip + 3], ip |-> line[i + skip + 5]]

\* the longest prefix of a token that [0-9a-fA-F:\.]+ matches
ClassPrefix(cs) ==
    LET n == CHOOSE k \in 0..Len(cs) :
                /\ \A j \in 1..k : cs[j] \in HexClass
                /\ k < Len(cs) => cs[k + 1] \notin HexClass
    IN  SubSeq(cs, 1, n)

\* INVALID_PATTERN matched at token i
InvalidAt(line, i) ==
    /\ Tok(line, i) = "Invalid"
    /\ Tok(line, i + 1) = "user"
    /\ i + 4 <= Len(line)
    /\ Tok(line, i + 3) = "from"
    /\ ClassPrefix(Spell(Tok(line, i + 4))) # <<>>

\* INVALID_PATTERN.search(line)
InvalidSearch(line) ==
    LET hits == {i \in 1..Len(line) : InvalidAt(line, i)}
    IN  IF hits = {} THEN NoMatch
        ELSE LET i == CHOOSE h \in hits : \A g \in hits : h <= g
             IN  [user |-> line[i + 2],
                  ip |-> Unspell(ClassPrefix(Spell(line[i + 4])))]

\* a mutant of Search: the grammars are tried in the other order
SearchInvalidFirst(line) ==
    IF InvalidSearch(line) # NoMatch THEN InvalidSearch(line) ELSE FailedSearch(line)

\* FAILED_PATTERN.search(line) or INVALID_PATTERN.search(line)
Search(line) ==
    IF FailedSearch(line) # NoMatch THEN FailedSearch(line) ELSE InvalidSearch(line)

----------------------------------------------------------------------------
(* The firewall backend: the ipset and iptables tools run by blocker._run *)

NoMembers == [a \in {} |-> 0]

Backend == [set |-> ipset_exists, members |-> members, rules |-> rules]

\* what subprocess.run can do: exit 0, exit nonzero, or fail to launch the tool
Faults == {"none", "exit", "launch"}

\* a tool prints a diagnostic on stderr when it exits nonzero
ErrText == "err"

Completed(status, fw, stdout, stderr) ==
    [status |-> status, fw |-> fw, stdout |-> stdout, stderr |-> stderr]

\* _run: the tool's own result `natural`, unless the invocation itself fails
_run(fw, fault, natural) ==
    IF fault = "launch" THEN Completed("raise", fw, "", "")
    ELSE IF fault = "exit" THEN Completed("fail", fw, natural.stdout, ErrText)
    ELSE natural

RECURSIVE SetToSeq(_)
SetToSeq(S) ==
    IF S = {} THEN <<>>
    ELSE LET x == CHOOSE y \in S : TRUE IN <<x>> \o SetToSeq(S \ {x})

HeaderForms == {"short", "full"}

\* the text `ipset list NAME` prints, as lines of tokens
Listing(fw, form) ==
    LET head == <<<<"Name:", "blk">>, <<"Type:", "hash:ip">>>>
        more == <<<<"Revision:", "4">>,
                  <<"Header:", "family", "inet", "hashsize", "1024", "timeout", "0">>,
                  <<"Size", "in", "memory:", "200">>,
                  <<"References:", "1">>,
                  <<"Number", "of", "entries:", "1">>>>
        ips == SetToSeq(DOMAIN fw.members)
        rows == [i \in 1..Len(ips) |-> <<ips[i], "timeout", "120">>]
    IN  (IF form = "full" THEN head \o more ELSE head) \o <<<<"Members:">>>> \o rows

\* ipset list NAME
ipset_list(fw, fault, form) ==
    _run(fw, fault,
         IF fw.set THEN Completed("ok", fw, Listing(fw, form), "")
         ELSE Completed("fail", fw, <<>>, ErrText))

\* ipset create NAME hash:ip timeout 0
ipset_create(fw, fault) ==
    _run(fw, fault,
         IF fw.set THEN Completed("fail", fw, "", ErrText)
         ELSE Completed("ok", [fw EXCEPT !.set = TRUE, !.members = NoMembers], "", ""))

\* iptables -C CHAIN -m set --match-set NAME src -j DROP
iptables_check(fw, fault) ==
    _run(fw, fault,
         IF fw.rules > 0 THEN Completed("ok", fw, "", "")
         ELSE Completed("fail", fw, "", ErrText))

\* iptables -I CHAIN -m set --match-set NAME src -j DROP
iptables_insert(fw, fault) ==
    _run(fw, fault,
         IF fw.set THEN Completed("ok", [fw EXCEPT !.rules = @ + 1], "", "")
         ELSE Completed("fail", fw, "", ErrText))

\* fw.members with ip mapped to timeout
WithMember(ms, ip, timeout) ==
    [a \in DOMAIN ms \cup {ip} |-> IF a = ip THEN timeout ELSE ms[a]]

WithoutMember(ms, ip) == [a \in DOMAIN ms \ {ip} |-> ms[a]]

\* the addresses ipset can parse as an element of the set, computed once
Literals == {a \in Tracked : ip_address(a) # Invalid}

\* ipset add NAME ip timeout N (no -exist: an element already in the set is
\* an error and keeps its timeout)
ipset_add(fw, ip, timeout, fault, out) ==
    _run(fw, fault,
         IF fw.set /\ ip \notin DOMAIN fw.members /\ ip \in Literals
         THEN Completed("ok", [fw EXCEPT !.members = WithMember(@, ip, timeout)],
                        out, "")
         ELSE Completed("fail", fw, out, ErrText))

\* ipset del NAME ip (no -exist: a missing element is an error)
ipset_del(fw, ip, fault, out) ==
    _run(fw, fault,
         IF fw.set /\ ip \in DOMAIN fw.members
         THEN Completed("ok", [fw EXCEPT !.members = WithoutMember(@, ip)], out, "")
         ELSE Completed("fail", fw, out, ErrText))

----------------------------------------------------------------------------
(* db.py: the audit ledger *)

\* the row insert_action writes
insert_action(now, ts, action, src_ip, duration_sec, status, message) ==
    [kind |-> "action", ts |-> IF ts = 0 THEN now ELSE ts, action |-> action,
     src_ip |-> src_ip, duration_sec |-> duration_sec, status |-> status,
     message |-> message]

\* the row insert_event writes
insert_event(now, ts, src_ip, username, reason, raw) ==
    [kind |-> "event", ts |-> IF ts = 0 THEN now ELSE ts, src_ip |-> src_ip,
     username |-> username, reason |-> reason, raw |-> raw]

----------------------------------------------------------------------------
(* blocker.py: the firewall controller *)

\* what one call of a controller function did
Outcome(fw, appended, cmds, raised, hooks, ret) ==
    [fw |-> fw, appended |-> appended, cmds |-> cmds, raised |-> raised,
     hooks |-> hooks, ret |-> ret]

\* one tool run of a call: the command, how it ended, and the injected fault
Cmd(name, res, fault) ==
    [cmd |-> name, status |-> res.status, fault |-> fault, stdout |-> res.stdout,
     stderr |-> res.stderr]

\* `a or b` on strings
StrOr(a, b) == IF a # "" THEN a ELSE b

OrNone(msg) == IF msg # "" THEN msg ELSE None

\* `if res.returncode != 0` on the set query
MustCreate(res) == res.status = "fail"

\* a mutant of CreateFailed: the result of create is not looked at
CreateFailedIgnored(create) == FALSE

\* `if create.returncode != 0`
CreateFailed(create) == create.status = "fail"

\* a mutant of MustInsert: the rule is inserted whatever the check says
MustInsertAlways(check) == TRUE

\* `if check.returncode != 0`
MustInsert(check) == check.status = "fail"

\* `if append.returncode != 0`
InsertFailed(append) == append.status = "fail"

\* ensure_firewall(cfg); f gives the fault of each of the four tool runs
ensure_firewall(fw, now, f) ==
    LET res == ipset_list(fw, f[1], "short")
        create == ipset_create(fw, f[2])
        mustCreate == MustCreate(res)
        fw2 == IF mustCreate THEN create.fw ELSE fw
        cmds2 == <<Cmd("ipset_list", res, f[1])>>
                 \o (IF mustCreate THEN <<Cmd("ipset_create", create, f[2])>>
                     ELSE <<>>)
        check == iptables_check(fw2, f[3])
        append == iptables_insert(fw2, f[4])
        mustInsert == MustInsert(check)
        fw4 == IF mustInsert THEN append.fw ELSE fw2
        cmds3 == cmds2 \o <<Cmd("iptables_check", check, f[3])>>
        cmds4 == cmds3 \o (IF mustInsert
                           THEN <<Cmd("iptables_insert", append, f[4])>>
                           ELSE <<>>)
    IN  IF res.status = "raise" THEN
            Outcome(fw, <<>>, <<Cmd("ipset_list", res, f[1])>>, TRUE, <<>>, <<>>)
        ELSE IF mustCreate /\ create.status = "raise" THEN
            Outcome(fw, <<>>, cmds2, TRUE, <<>>, <<>>)
        ELSE IF mustCreate /\ CreateFailed(create) THEN
            Outcome(fw,
                    <<insert_action(now, 0, "ensure_firewall", None, None, "error",
                                    Strip(create.stderr))>>,
                    cmds2, FALSE, <<>>, <<>>)
        ELSE IF check.status = "raise" THEN
            Outcome(fw2, <<>>, cmds3, TRUE, <<>>, <<>>)
        ELSE IF mustInsert /\ append.status = "raise" THEN
            Outcome(fw2, <<>>, cmds4, TRUE, <<>>, <<>>)
        ELSE IF mustInsert /\ InsertFailed(append) THEN
            Outcome(fw2,
                    <<insert_action(now, 0, "ensure_firewall", None, None, "error",
                                    Strip(append.stderr))>>,
                    cmds4, FALSE, <<>>, <<>>)
        ELSE
            Outcome(fw4,
                    <<insert_action(now, 0, "ensure_firewall", None, None, "ok",
                                    "ipset and iptables verified")>>,
                    cmds4, FALSE, <<>>, <<>>)

\* block_ip(cfg, ip, duration_seconds, reason)
\* a mutant of MustNotify: the hooks run whatever the add did
MustNotifyAlways(status) == TRUE

\* `if status == "ok"` before the hooks of block_ip
MustNotify(status) == status = "ok"

block_ip(fw, now, ip, duration_seconds, reason, fault, out) ==
    LET res == ipset_add(fw, ip, Max(1, duration_seconds), fault, out)
        status == IF res.status = "ok" THEN "ok" ELSE "error"
        msg == StrOr(Strip(res.stdout), Strip(res.stderr))
    IN  IF res.status = "raise" THEN
            Outcome(fw, <<>>, <<Cmd("ipset_add", res, fault)>>, TRUE, <<>>, <<>>)
        ELSE
            Outcome(res.fw,
                    <<insert_action(now, now, "block", ip, duration_seconds, status,
                                    OrNone(msg))>>,
                    <<Cmd("ipset_add", res, fault)>>, FALSE,
                    IF MustNotify(status)
                    THEN <<[hook |-> "geoip_lookup", ip |-> ip],
                           [hook |-> "notify_ip_blocked", ip |-> ip,
                            reason |-> reason, duration |-> duration_seconds]>>
                    ELSE <<>>,
                    <<>>)

\* a mutant of unblock_ip: a failed removal is not recorded
UnblockUnrecordedFailure(fw, now, ip, fault, out) ==
    LET res == ipset_del(fw, ip, fault, out)
        msg == StrOr(Strip(res.stdout), Strip(res.stderr))
    IN  IF res.status = "raise" THEN
            Outcome(fw, <<>>, <<Cmd("ipset_del", res, fault)>>, TRUE, <<>>, <<>>)
        ELSE
            Outcome(res.fw,
                    IF res.status = "ok"
                    THEN <<insert_action(now, now, "unblock", ip, None, "ok",
                                         OrNone(msg))>>
                    ELSE <<>>,
                    <<Cmd("ipset_del", res, fault)>>, FALSE, <<>>, <<>>)

\* a mutant of unblock_ip: the member is tested for, not deleted
UnblockWithoutDelete(fw, now, ip, fault, out) ==
    LET res == ipset_del(fw, ip, fault, out)
        status == IF res.status = "ok" THEN "ok" ELSE "error"
        msg == StrOr(Strip(res.stdout), Strip(res.stderr))
    IN  IF res.status = "raise" THEN
            Outcome(fw, <<>>, <<Cmd("ipset_del", res, fault)>>, TRUE, <<>>, <<>>)
        ELSE
            Outcome(fw,
                    <<insert_action(now, now, "unblock", ip, None, status,
                                    OrNone(msg))>>,
                    <<Cmd("ipset_del", res, fault)>>, FALSE, <<>>, <<>>)

\* unblock_ip(cfg, ip)
unblock_ip(fw, now, ip, fault, out) ==
    LET res == ipset_del(fw, ip, fault, out)
        status == IF res.status = "ok" THEN "ok" ELSE "error"
        msg == StrOr(Strip(res.stdout), Strip(res.stderr))
    IN  IF res.status = "raise" THEN
            Outcome(fw, <<>>, <<Cmd("ipset_del", res, fault)>>, TRUE, <<>>, <<>>)
        ELSE
            Outcome(res.fw,
                    <<insert_action(now, now, "unblock", ip, None, status,
                                    OrNone(msg))>>,
                    <<Cmd("ipset_del", res, fault)>>, FALSE, <<>>, <<>>)

\* the loop body of list_blocked: the address a line contributes, if any
ListedIp(parts) ==
    IF \/ parts = <<>>
       \/ StartsWith(Spell(parts[1]), <<"N", "a", "m", "e", ":">>)
       \/ StartsWith(Spell(parts[1]), <<"T", "y", "p", "e", ":">>)
    THEN {}
    ELSE IF \/ (parts # <<>> /\ CountChar(Spell(parts[1]), ".") = 3)
            \/ Contains(Spell(parts[1]), ":")
    THEN {parts[1]}
    ELSE {}

\* list_blocked(cfg)
list_blocked(fw, fault, form) ==
    LET res == ipset_list(fw, fault, form)
        ips == UNION {ListedIp(res.stdout[i]) : i \in 1..Len(res.stdout)}
    IN  IF res.status = "raise" THEN
            Outcome(fw, <<>>, <<Cmd("ipset_list", res, fault)>>, TRUE, <<>>, <<>>)
        ELSE IF res.status # "ok" THEN
            Outcome(fw, <<>>, <<Cmd("ipset_list", res, fault)>>, FALSE, <<>>, <<>>)
        ELSE
            Outcome(fw, <<>>, <<Cmd("ipset_list", res, fault)>>, FALSE, <<>>, Sorted(ips))

\* the processes that can call ensure_firewall: the daemon at start-up and
\* the command line (`ensure-firewall`, `simulate`)
Procs == {"startup", "on_demand"}

\* a process that is not inside ensure_firewall
IdleFrame ==
    [pc |-> "idle", sawSet |-> FALSE, sawRule |-> FALSE, calls |-> 0,
     fault |-> "none", faulted |-> FALSE, raised |-> FALSE]

NoFrames == [p \in Procs |-> IdleFrame]

\* `self.last_notification_time = {}`
NoStamps == <<>>

\* the loop of parse_and_detect waits for a line; nothing is written yet
NoBody ==
    [pc |-> "for", ip |-> "", current |-> 0, usernames |-> {}, counted |-> <<>>,
     pending |-> <<>>, written |-> 0]

----------------------------------------------------------------------------
(* Configurations *)

DefaultWhitelist ==
    <<"127.0.0.1/32", "::1/128", "10.0.0.0/8", "172.16.0.0/12", "192.168.0.0/16">>

Configs(thresholds, windows, durations, whitelists) ==
    [failures_threshold : thresholds,
     window_seconds : windows,
     block_seconds : durations,
     whitelist : whitelists]

InitCommon ==
    /\ clock = 1
    /\ ip_to_timestamps = [a \in Tracked |-> <<>>]
    /\ ip_to_usernames = [a \in Tracked |-> {}]
    /\ adds = [a \in Tracked |-> <<>>]
    /\ ledger = <<>>
    /\ call = NoCall
    /\ prevCall = NoCall
    /\ running = TRUE
    /\ frames = NoFrames
    /\ last_notification_time = NoStamps
    /\ dispatched = <<>>
    /\ body = NoBody

\* no file is watched
TailIdle ==
    /\ disk = [bound |-> <<>>, data |-> <<>>, used |-> 0]
    /\ orch = [logs |-> <<>>, i |-> 0, pc |-> "for", inode |-> 0, st |-> 0,
               f |-> [ino |-> 0, pos |-> 0, closed |-> FALSE]]
    /\ emitted = <<>>
    /\ env = [writes |-> 0, faults |-> 0, mid |-> 0, torn |-> FALSE,
              replaced |-> FALSE, opened |-> FALSE, preopen |-> {}]

----------------------------------------------------------------------------
(* The counter on its own: add and count called with arbitrary arguments *)

InitWin ==
    /\ InitCommon
    /\ TailIdle
    /\ cfg \in Configs({1}, 1..MaxWindow, {60}, {DefaultWhitelist})
    /\ ipset_exists = FALSE
    /\ members = NoMembers
    /\ rules = 0

NextWin ==
    \/ \E ip \in Addrs, u \in {None, "root"}, ts \in 0..MaxTime :
          CounterAdd(ip, u, ts) /\ UNCHANGED <<tailVars, auxVars>>
    \/ \E ip \in Addrs, now \in 0..MaxTime :
          CounterCount(ip, now) /\ UNCHANGED <<tailVars, auxVars>>

SpecWin == InitWin /\ [][NextWin]_vars

----------------------------------------------------------------------------
(* The controller on its own: its four functions called in any order *)

\* the state after a controller call with outcome o
ApplyCall(op, ip, o) ==
    /\ ipset_exists' = o.fw.set
    /\ members' = o.fw.members
    /\ rules' = o.fw.rules
    /\ ledger' = ledger \o o.appended
    /\ prevCall' = call
    /\ call' = [NoCall EXCEPT
                  !.op = op, !.ip = ip, !.now = clock, !.ret = o.ret,
                  !.cmds = o.cmds, !.appended = Len(o.appended),
                  !.raised = o.raised, !.hooks = o.hooks,
                  !.pre = [ipset_exists |-> ipset_exists,
                           member |-> ip \in DOMAIN members,
                           rules |-> rules]]

\* the tool runs of ensure_firewall, in the order of its code
EnsureRuns == <<"ipset_list", "ipset_create", "iptables_check", "iptables_insert">>

\* f names a fault only for runs the call makes
FaultsOfRuns(f, cmds) ==
    \A i \in 1..4 :
       f[i] # "none" => \E j \in 1..Len(cmds) : cmds[j].cmd = EnsureRuns[i]

EnsureFirewall(f) ==
    LET o == ensure_firewall(Backend, clock, f)
    IN  /\ Len(ledger) < MaxActions
        /\ FaultsOfRuns(f, o.cmds)
        /\ o.fw.rules <= MaxRules
        /\ ApplyCall("ensure_firewall", "", o)
        /\ UNCHANGED <<cfg, clock, ip_to_timestamps, ip_to_usernames, adds, running>>

BlockIp(ip, fault, out) ==
    LET o == block_ip(Backend, clock, ip, cfg.block_seconds, "Brute force detected",
                      fault, out)
    IN  /\ Len(ledger) < MaxActions
        /\ ApplyCall("block_ip", ip, o)
        /\ UNCHANGED <<cfg, clock, ip_to_timestamps, ip_to_usernames, adds, running>>

UnblockIp(ip, fault, out) ==
    LET o == unblock_ip(Backend, clock, ip, fault, out)
    IN  /\ Len(ledger) < MaxActions
        /\ ApplyCall("unblock_ip", ip, o)
        /\ UNCHANGED <<cfg, clock, ip_to_timestamps, ip_to_usernames, adds, running>>

ListBlocked(fault, form) ==
    LET o == list_blocked(Backend, fault, form)
    IN  /\ ApplyCall("list_blocked", "", o)
        /\ UNCHANGED <<cfg, clock, ip_to_timestamps, ip_to_usernames, adds, running>>

Durations == {0, 60}

\* ipset prints nothing on stdout for add and del
OutTexts == {""}

\* the address the controller is called with
FwAddrs == {"203.0.113.7"}

\* the members a previous run of the program may have left behind
LeftMembers == {NoMembers, [a \in {"10.1.2.3"} |-> 30], [a \in Addrs |-> 30]}

InitFw ==
    /\ InitCommon
    /\ TailIdle
    /\ cfg \in Configs({1}, {1}, Durations, {DefaultWhitelist})
    /\ ipset_exists \in BOOLEAN
    /\ members \in (IF ipset_exists THEN LeftMembers ELSE {NoMembers})
    /\ rules \in 0..1

NextFw ==
    \/ \E f \in [1..4 -> Faults] : EnsureFirewall(f) /\ UNCHANGED <<tailVars, auxVars>>
    \/ \E ip \in FwAddrs, fault \in Faults, out \in OutTexts :
          BlockIp(ip, fault, out) /\ UNCHANGED <<tailVars, auxVars>>
    \/ \E ip \in FwAddrs, fault \in Faults, out \in OutTexts :
          UnblockIp(ip, fault, out) /\ UNCHANGED <<tailVars, auxVars>>
    \/ \E fault \in Faults, form \in HeaderForms :
          ListBlocked(fault, form) /\ UNCHANGED <<tailVars, auxVars>>

SpecFw == InitFw /\ [][NextFw]_vars

----------------------------------------------------------------------------
(* ensure_firewall called by two processes at once: the daemon's start-up  *)
(* and the command line. Each tool run is one step on the shared backend;  *)
(* nothing in blocker.py holds a lock across the runs of one call.         *)

\* the calls a process may make: the daemon calls once, at start-up
CallsOf(p) == IF p = "startup" THEN 1 ELSE MaxCalls

\* the backend after a tool run
ApplyRun(r) ==
    /\ ipset_exists' = r.fw.set
    /\ members' = r.fw.members
    /\ rules' = r.fw.rules

\* the frame of p after a run with the given fault
Stepped(p, pc, fault) ==
    [frames[p] EXCEPT !.pc = IF fault = "launch" THEN "done" ELSE pc,
                      !.raised = fault = "launch",
                      !.fault = fault,
                      !.faulted = @ \/ fault # "none"]

\* `ensure_firewall(cfg)` is entered
EnsureBegin(p) ==
    /\ frames[p].pc \in {"idle", "done"}
    /\ frames[p].calls < CallsOf(p)
    /\ frames' = [frames EXCEPT ![p] = [@ EXCEPT !.pc = "list", !.calls = @ + 1,
                                                 !.sawSet = FALSE, !.sawRule = FALSE,
                                                 !.raised = FALSE,
                                                 !.fault = "none"]]
    /\ UNCHANGED <<ipset_exists, members, rules, ledger>>

\* `res = _run(["ipset", "list", ...])` and `if res.returncode != 0`
EnsureList(p, fault) ==
    LET res == ipset_list(Backend, fault, "short")
    IN  /\ frames[p].pc = "list"
        /\ ApplyRun(res)
        /\ frames' = [frames EXCEPT ![p] =
                        [Stepped(p, IF MustCreate(res) THEN "create" ELSE "check",
                                 fault)
                         EXCEPT !.sawSet = res.status = "ok"]]
        /\ UNCHANGED ledger

\* `create = _run(["ipset", "create", ...])` and `if create.returncode != 0`
EnsureCreate(p, fault) ==
    LET create == ipset_create(Backend, fault)
    IN  /\ frames[p].pc = "create"
        /\ ApplyRun(create)
        /\ frames' = [frames EXCEPT ![p] =
                        Stepped(p, IF CreateFailed(create) THEN "done" ELSE "check",
                                fault)]
        /\ ledger' = IF CreateFailed(create)
                     THEN Append(ledger,
                                 insert_action(clock, 0, "ensure_firewall", None, None,
                                               "error", Strip(create.stderr)))
                     ELSE ledger

\* `check = _run(["iptables", "-C", ...])` and `if check.returncode != 0`;
\* when the rule is there the call ends with its ok record
EnsureCheck(p, fault) ==
    LET check == iptables_check(Backend, fault)
    IN  /\ frames[p].pc = "check"
        /\ ApplyRun(check)
        /\ frames' = [frames EXCEPT ![p] =
                        [Stepped(p, IF MustInsert(check) THEN "insert" ELSE "done",
                                 fault)
                         EXCEPT !.sawRule = check.status = "ok"]]
        /\ ledger' = IF check.status = "ok"
                     THEN Append(ledger,
                                 insert_action(clock, 0, "ensure_firewall", None, None,
                                               "ok", "ipset and iptables verified"))
                     ELSE ledger

\* `append = _run(["iptables", "-I", ...])`, `if append.returncode != 0`, and
\* the record that ends the call
EnsureInsert(p, fault) ==
    LET append == iptables_insert(Backend, fault)
    IN  /\ frames[p].pc = "insert"
        /\ ApplyRun(append)
        /\ frames' = [frames EXCEPT ![p] = Stepped(p, "done", fault)]
        /\ ledger' = IF append.status = "raise" THEN ledger
                     ELSE IF InsertFailed(append)
                     THEN Append(ledger,
                                 insert_action(clock, 0, "ensure_firewall", None, None,
                                               "error", Strip(append.stderr)))
                     ELSE Append(ledger,
                                 insert_action(clock, 0, "ensure_firewall", None, None,
                                               "ok", "ipset and iptables verified"))

\* what no step of ensure_firewall touches
EnsureFrame ==
    UNCHANGED <<cfg, clock, ip_to_timestamps, ip_to_usernames, adds, call, prevCall,
                running, last_notification_time, dispatched, body, tailVars>>

InitEns ==
    /\ InitCommon
    /\ TailIdle
    /\ cfg \in Configs({1}, {1}, {60}, {DefaultWhitelist})
    /\ ipset_exists \in BOOLEAN
    /\ members = NoMembers
    /\ rules = 0

NextEns ==
    \/ \E p \in Procs : EnsureBegin(p) /\ EnsureFrame
    \/ \E p \in Procs, fault \in Faults : EnsureList(p, fault) /\ EnsureFrame
    \/ \E p \in Procs, fault \in Faults : EnsureCreate(p, fault) /\ EnsureFrame
    \/ \E p \in Procs, fault \in Faults : EnsureCheck(p, fault) /\ EnsureFrame
    \/ \E p \in Procs, fault \in Faults : EnsureInsert(p, fault) /\ EnsureFrame

SpecEns == InitEns /\ [][NextEns]_vars

----------------------------------------------------------------------------
(* block_ip and unblock_ip with a tool that may print on stdout *)

\* what the tool prints on stdout: nothing, white space, a text
StdTexts == {"", " ", "out"}

InitMsg ==
    /\ InitCommon
    /\ TailIdle
    /\ cfg \in Configs({1}, {1}, {60}, {DefaultWhitelist})
    /\ ipset_exists \in BOOLEAN
    /\ members \in (IF ipset_exists THEN LeftMembers ELSE {NoMembers})
    /\ rules = 1

NextMsg ==
    \/ \E ip \in FwAddrs, fault \in Faults, out \in StdTexts :
          BlockIp(ip, fault, out) /\ UNCHANGED <<tailVars, auxVars>>
    \/ \E ip \in FwAddrs, fault \in Faults, out \in StdTexts :
          UnblockIp(ip, fault, out) /\ UNCHANGED <<tailVars, auxVars>>

SpecMsg == InitMsg /\ [][NextMsg]_vars

----------------------------------------------------------------------------
(* detector.py: the body of the loop of parse_and_detect *)

\* a mutant of Exempt: the whitelist test is skipped
ExemptNever(ip, whitelist) == FALSE

\* `if is_ip_whitelisted(ip, cfg.whitelist): continue`
Exempt(ip, whitelist) == is_ip_whitelisted(ip, whitelist)

\* a mutant of Reached: the count must exceed the threshold
ReachedStrict(current, failures_threshold) == current > failures_threshold

\* `if current >= cfg.failures_threshold`
Reached(current, failures_threshold) == current >= failures_threshold

\* lines of an auth log
Lines ==
    {<<"sshd[1]:", "Failed", "password", "for", "invalid", "user", "admin", "from",
       "203.0.113.7", "port", "4444", "ssh2">>,
     <<"Failed", "password", "for", "root", "from", "10.1.2.3", "port", "22",
       "ssh2">>,
     <<"Invalid", "user", "test", "from", "203.0.113.7", "port", "5555">>,
     <<"Accepted", "password", "for", "root", "from", "203.0.113.7", "port",
       "22", "ssh2">>}

Whitelists == {DefaultWhitelist, <<"bogus", "203.0.113.9/24">>}

\* a line whose address token is not an IP literal
OddLines ==
    {<<"Failed", "password", "for", "root", "from", MalformedAddr, "port", "22",
       "ssh2">>}

\* a line both grammars match, with different usernames and addresses
MixedLines ==
    {<<"Invalid", "user", "test", "from", "10.1.2.3", "Failed", "password", "for",
       "root", "from", "203.0.113.7", "port", "22", "ssh2">>}

\* entries of a whitelist, one of them not a network
Entries == {"bogus", "10.0.0.0/8", "203.0.113.9/24", "::1/128"}

\* the whitelists of at most MaxEntries entries
ListInputs == UNION {[1..n -> Entries] : n \in 0..MaxEntries}

\* m for each line, computed once
Parsed == [line \in Lines \cup OddLines \cup MixedLines |-> Search(line)]

ParsedIps ==
    {Parsed[line].ip : line \in Lines \cup OddLines \cup MixedLines} \ {None}

\* the whitelist test of each parsed address under each whitelist, computed once
Exempted ==
    [whitelist \in Whitelists |-> [ip \in ParsedIps |-> Exempt(ip, whitelist)]]

\* the whitelist test of parse_and_detect
IsExempt(ip, whitelist) ==
    IF whitelist \in Whitelists THEN Exempted[whitelist][ip]
    ELSE Exempt(ip, whitelist)

\* a mutant of Recorded: the event is written after block_ip has returned
RecordedUnlessRaised(event, o) ==
    IF o.raised THEN <<>> ELSE <<event>> \o o.appended

\* a mutant of Recorded: the action is written before the event
RecordedActionFirst(event, o) == o.appended \o <<event>>

\* what a line that reaches the threshold writes to the ledger: insert_event
\* first, then what block_ip writes
Recorded(event, o) == <<event>> \o o.appended

\* a mutant of Cleared: the window is kept when the block failed
ClearedOnSuccess(held, empty, o) ==
    IF o.raised \/ o.cmds[1].status # "ok" THEN held ELSE empty

\* what the tracker holds for the address after a decision: the two clear()
\* calls come after block_ip and are not reached when block_ip raises
Cleared(held, empty, o) == IF o.raised THEN held ELSE empty

\* a mutant of Hooks: the detection hook is called only after a block that
\* succeeded
HooksOnSuccess(geo, o, notify) ==
    IF o.raised THEN <<geo>>
    ELSE IF o.cmds[1].status # "ok" THEN <<geo>> \o o.hooks
    ELSE <<geo>> \o o.hooks \o <<notify>>

\* the hooks of a decision, in call order: the lookup of line 102, what
\* block_ip calls, and notify_brute_force_detected once block_ip has returned
Hooks(geo, o, notify) ==
    IF o.raised THEN <<geo>> ELSE <<geo>> \o o.hooks \o <<notify>>

\* the events of the ledger for address ip
EventsOf(ip) ==
    SelectSeq(ledger, LAMBDA r : r.kind = "event" /\ r.src_ip = ip)

\* the block records of the ledger for address ip
BlocksOf(ip) ==
    SelectSeq(ledger,
              LAMBDA r : r.kind = "action" /\ r.action = "block" /\ r.src_ip = ip)

EventCount == Len(SelectSeq(ledger, LAMBDA r : r.kind = "event"))

\* one line read from the log is parsed, filtered, recorded and counted, and
\* the address is blocked and its window reset when the count reaches the
\* threshold
ProcessLine(line, fault, out) ==
    LET _now == clock
        m == Parsed[line]
        ip == m.ip
        user == m.user
        q == AddTimestamps(ip_to_timestamps[ip], OrNow(_now), cfg.window_seconds)
        names == AddUsernames(ip_to_usernames[ip], user)
        current == Len(q)
        event == insert_event(_now, _now, ip, user, "failed_login", line)
        o == block_ip(Backend, _now, ip, cfg.block_seconds,
                      <<"Brute force detected", current>>, fault, out)
        geo == [hook |-> "geoip_lookup", ip |-> ip]
        notify == [hook |-> "notify_brute_force_detected", ip |-> ip,
                   attempts |-> current, usernames |-> names]
        skipped == [NoCall EXCEPT !.op = "line", !.now = _now, !.line = line]
        seen == [NoCall EXCEPT
                   !.op = "line", !.ip = ip, !.now = _now, !.n = current,
                   !.appended = 1, !.line = line,
                   !.pre = [ipset_exists |-> ipset_exists,
                            member |-> ip \in DOMAIN members,
                            rules |-> rules]]
    IN  /\ running
        /\ EventCount < MaxLines
        /\ IF m = NoMatch THEN
              /\ call' = skipped
              /\ UNCHANGED <<ip_to_timestamps, ip_to_usernames, adds, ipset_exists,
                             members, rules, ledger, running>>
           ELSE IF IsExempt(ip, cfg.whitelist) THEN
              /\ call' = [skipped EXCEPT !.ip = ip]
              /\ UNCHANGED <<ip_to_timestamps, ip_to_usernames, adds, ipset_exists,
                             members, rules, ledger, running>>
           ELSE IF ~Reached(current, cfg.failures_threshold) THEN
              /\ fault = "none"
              /\ call' = seen
              /\ ledger' = Append(ledger, event)
              /\ ip_to_timestamps' = [ip_to_timestamps EXCEPT ![ip] = q]
              /\ ip_to_usernames' = [ip_to_usernames EXCEPT ![ip] = names]
              /\ adds' = [adds EXCEPT ![ip] = Append(@, OrNow(_now))]
              /\ UNCHANGED <<ipset_exists, members, rules, running>>
           ELSE
              /\ call' = [seen EXCEPT
                            !.decided = TRUE, !.cmds = o.cmds,
                            !.appended = 1 + Len(o.appended),
                            !.raised = o.raised,
                            !.hooks = Hooks(geo, o, notify)]
              /\ ledger' = ledger \o Recorded(event, o)
              /\ ip_to_timestamps' =
                    [ip_to_timestamps EXCEPT ![ip] = Cleared(q, <<>>, o)]
              /\ ip_to_usernames' =
                    [ip_to_usernames EXCEPT ![ip] = Cleared(names, {}, o)]
              /\ adds' = [adds EXCEPT ![ip] = Append(@, OrNow(_now))]
              /\ ipset_exists' = o.fw.set
              /\ members' = o.fw.members
              /\ rules' = o.fw.rules
              /\ running' = ~o.raised
        /\ UNCHANGED <<cfg, clock, prevCall>>

InitDet ==
    /\ InitCommon
    /\ TailIdle
    /\ cfg \in Configs(1..MaxThreshold, 1..MaxWindow, {60}, Whitelists)
    /\ ipset_exists \in BOOLEAN
    /\ members \in (IF ipset_exists THEN {NoMembers, [a \in Addrs |-> 30]}
                    ELSE {NoMembers})
    /\ rules = 1

NextDet ==
    \/ \E line \in Lines, fault \in Faults, out \in OutTexts :
          ProcessLine(line, fault, out) /\ UNCHANGED <<tailVars, auxVars>>
    \/ Tick /\ UNCHANGED <<tailVars, auxVars>>

SpecDet == InitDet /\ [][NextDet]_vars

----------------------------------------------------------------------------
(* detector.py: the loop body step by step. block_ip runs a tool and the    *)
(* hooks use the network, so lines are written to the log while the body    *)
(* is between the add that reached the threshold and the two clear() calls. *)

\* a mutant of BodyFree: the next line is taken while a decision is in flight
BodyFreeAlways == TRUE

\* `for line in _iter_new_lines(log_path)`: the next line is taken when the
\* body has run to its end
BodyFree == body.pc = "for"

\* sshd appends a line to the log
WriteLine(line) ==
    /\ body.written < MaxLines
    /\ body' = [body EXCEPT !.pending = Append(@, line), !.written = @ + 1]
    /\ UNCHANGED <<ip_to_timestamps, ip_to_usernames, adds, ipset_exists, members,
                   rules, ledger, running, clock>>

\* lines 88-100: the line is parsed, filtered, recorded and counted, and the
\* count is compared with the threshold
BodyLine ==
    LET line == Head(body.pending)
        _now == clock
        m == Parsed[line]
        ip == m.ip
        q == AddTimestamps(ip_to_timestamps[ip], OrNow(_now), cfg.window_seconds)
        names == AddUsernames(ip_to_usernames[ip], m.user)
        current == Len(q)
        taken == [body EXCEPT !.pending = Tail(@)]
    IN  /\ running
        /\ BodyFree
        /\ body.pending # <<>>
        /\ IF m = NoMatch \/ IsExempt(ip, cfg.whitelist) THEN
              /\ body' = taken
              /\ UNCHANGED <<ip_to_timestamps, ip_to_usernames, adds, ledger>>
           ELSE
              /\ ledger' = Append(ledger, insert_event(_now, _now, ip, m.user,
                                                       "failed_login", line))
              /\ ip_to_timestamps' = [ip_to_timestamps EXCEPT ![ip] = q]
              /\ ip_to_usernames' = [ip_to_usernames EXCEPT ![ip] = names]
              /\ adds' = [adds EXCEPT ![ip] = Append(@, OrNow(_now))]
              /\ body' = IF Reached(current, cfg.failures_threshold)
                         THEN [taken EXCEPT !.pc = "block", !.ip = ip,
                                            !.current = current,
                                            !.usernames = names, !.counted = q]
                         ELSE taken
        /\ UNCHANGED <<ipset_exists, members, rules, running, clock>>

\* lines 102-106: geoip lookup, get_usernames and block_ip
BodyBlock(fault, out) ==
    LET o == block_ip(Backend, clock, body.ip, cfg.block_seconds,
                      <<"Brute force detected", body.current>>, fault, out)
    IN  /\ running
        /\ body.pc = "block"
        /\ ipset_exists' = o.fw.set
        /\ members' = o.fw.members
        /\ rules' = o.fw.rules
        /\ ledger' = ledger \o o.appended
        /\ running' = ~o.raised
        /\ body' = [body EXCEPT !.pc = IF o.raised THEN "raised" ELSE "notify"]
        /\ UNCHANGED <<ip_to_timestamps, ip_to_usernames, adds, clock>>

\* line 109: notify_brute_force_detected returns
BodyNotify ==
    /\ body.pc = "notify"
    /\ body' = [body EXCEPT !.pc = "clear"]
    /\ UNCHANGED <<ip_to_timestamps, ip_to_usernames, adds, ipset_exists, members,
                   rules, ledger, running, clock>>

\* lines 112-113: the two clear() calls
BodyClear ==
    /\ body.pc = "clear"
    /\ ip_to_timestamps' = [ip_to_timestamps EXCEPT ![body.ip] = <<>>]
    /\ ip_to_usernames' = [ip_to_usernames EXCEPT ![body.ip] = {}]
    /\ body' = [body EXCEPT !.pc = "for"]
    /\ UNCHANGED <<adds, ipset_exists, members, rules, ledger, running, clock>>

\* the clock moves while the body runs
BodyTick ==
    /\ clock < MaxTime
    /\ clock' = clock + 1
    /\ UNCHANGED <<ip_to_timestamps, ip_to_usernames, adds, ipset_exists, members,
                   rules, ledger, running, body>>

\* what no step of the body touches
BodyFrame ==
    UNCHANGED <<cfg, call, prevCall, frames, last_notification_time, dispatched,
                tailVars>>

InitBody ==
    /\ InitCommon
    /\ TailIdle
    /\ cfg \in Configs(1..MaxThreshold, {1}, {60}, {DefaultWhitelist})
    /\ ipset_exists = TRUE
    /\ members = NoMembers
    /\ rules = 1

NextBody ==
    \/ \E line \in Lines : WriteLine(line) /\ BodyFrame
    \/ BodyLine /\ BodyFrame
    \/ \E fault \in Faults, out \in OutTexts : BodyBlock(fault, out) /\ BodyFrame
    \/ BodyNotify /\ BodyFrame
    \/ BodyClear /\ BodyFrame
    \/ BodyTick /\ BodyFrame

SpecBody == InitBody /\ [][NextBody]_vars

----------------------------------------------------------------------------
(* notifications.py: the rate limit of the NotificationManager, its two     *)
(* hooks called for any address at any time                                 *)

\* `self.rate_limit_seconds = 300`
rate_limit_seconds == 300

\* a mutant of NotificationType: one key for all addresses
NotificationTypeShared(kind, ip) == <<kind, "">>

\* f"brute_force_{ip}" and f"block_{ip}"
NotificationType(kind, ip) == <<kind, ip>>

\* `self.last_notification_time.get(notification_type, 0)`
LastTime(notification_type) ==
    IF notification_type \in DOMAIN last_notification_time
    THEN last_notification_time[notification_type] ELSE 0

\* _should_send_notification(notification_type) at time now
_should_send_notification(notification_type, now) ==
    ~(now - LastTime(notification_type) < rate_limit_seconds)

\* last_notification_time after `self.last_notification_time[...] = now`
Stamped(notification_type, now) ==
    [k \in DOMAIN last_notification_time \cup {notification_type} |->
        IF k = notification_type THEN now ELSE last_notification_time[k]]

\* notify_brute_force_detected and notify_ip_blocked: the rate limit, then
\* send_email and send_slack, which return False when the delivery fails
Notify(kind, ip, delivered) ==
    LET notification_type == NotificationType(kind, ip)
        send == _should_send_notification(notification_type, clock)
    IN  /\ send => Len(dispatched) < MaxActions
        /\ call' = [NoCall EXCEPT !.op = kind, !.ip = ip, !.now = clock,
                                  !.ret = <<send>>]
        /\ last_notification_time' =
              IF send THEN Stamped(notification_type, clock)
              ELSE last_notification_time
        /\ dispatched' =
              IF send
              THEN Append(dispatched, [kind |-> kind, ip |-> ip, at |-> clock,
                                       delivered |-> delivered])
              ELSE dispatched
        /\ UNCHANGED <<cfg, clock, ip_to_timestamps, ip_to_usernames, adds,
                       ipset_exists, members, rules, ledger, prevCall, running,
                       frames, body, tailVars>>

notify_brute_force_detected(ip, delivered) == Notify("brute_force", ip, delivered)

notify_ip_blocked(ip, delivered) == Notify("block", ip, delivered)

\* the time between two calls: nothing, or the rate limit give or take a second
Gaps == {rate_limit_seconds - 1, rate_limit_seconds, rate_limit_seconds + 1}

Advance(d) ==
    /\ clock + d <= rate_limit_seconds * (MaxTime + 1)
    /\ clock' = clock + d
    /\ UNCHANGED <<cfg, ip_to_timestamps, ip_to_usernames, adds, ipset_exists,
                   members, rules, ledger, call, prevCall, running, auxVars,
                   tailVars>>

\* time.time() is far beyond the rate limit when the manager is created
InitNotify ==
    /\ clock = rate_limit_seconds
    /\ ip_to_timestamps = [a \in Tracked |-> <<>>]
    /\ ip_to_usernames = [a \in Tracked |-> {}]
    /\ adds = [a \in Tracked |-> <<>>]
    /\ ledger = <<>>
    /\ call = NoCall
    /\ prevCall = NoCall
    /\ running = TRUE
    /\ frames = NoFrames
    /\ last_notification_time = NoStamps
    /\ dispatched = <<>>
    /\ body = NoBody
    /\ TailIdle
    /\ cfg \in Configs({1}, {1}, {60}, {DefaultWhitelist})
    /\ ipset_exists = TRUE
    /\ members = NoMembers
    /\ rules = 1

NextNotify ==
    \/ \E ip \in Addrs, delivered \in BOOLEAN : notify_brute_force_detected(ip, delivered)
    \/ \E ip \in Addrs, delivered \in BOOLEAN : notify_ip_blocked(ip, delivered)
    \/ \E d \in Gaps : Advance(d)

SpecNotify == InitNotify /\ [][NextNotify]_vars

----------------------------------------------------------------------------
(* __main__.py: main calls ensure_firewall, then parse_and_detect *)

\* main has not called ensure_firewall yet
Booting == frames["startup"].pc = "idle"

\* ensure_firewall has returned to main, which goes on to parse_and_detect
Detecting == frames["startup"].pc = "done" /\ ~frames["startup"].raised

\* `ensure_firewall(cfg)` of main: an exception leaves main
MainEnsure(f) ==
    /\ Booting
    /\ EnsureFirewall(f)
    /\ frames' = [frames EXCEPT !["startup"] =
                    [@ EXCEPT !.pc = "done", !.calls = 1,
                              !.raised = ensure_firewall(Backend, clock, f).raised]]
    /\ UNCHANGED <<last_notification_time, dispatched, body, tailVars>>

\* `parse_and_detect(cfg)` of main, one line at a time
MainDetect(line, fault, out) ==
    /\ Detecting
    /\ ProcessLine(line, fault, out)
    /\ UNCHANGED <<auxVars, tailVars>>

InitMain ==
    /\ InitCommon
    /\ TailIdle
    /\ cfg \in Configs(1..MaxThreshold, {MaxWindow}, {60}, {DefaultWhitelist})
    /\ ipset_exists \in BOOLEAN
    /\ members = NoMembers
    /\ rules \in 0..1

NextMain ==
    \/ \E f \in [1..4 -> Faults] : MainEnsure(f)
    \/ \E line \in Lines, fault \in Faults, out \in OutTexts :
          MainDetect(line, fault, out)
    \/ Tick /\ UNCHANGED <<tailVars, auxVars>>

SpecMain == InitMain /\ [][NextMain]_vars

----------------------------------------------------------------------------
(* config.py: is_ip_whitelisted on malformed whitelists and addresses, called
   on its own and from the loop of parse_and_detect *)

\* the addresses the test is called with
AddrInputs == Tracked \cup {"bogus"}

\* is_ip_whitelisted(ip, cfg.whitelist)
CheckWhitelist(ip) ==
    /\ call' = [NoCall EXCEPT
                  !.op = "is_ip_whitelisted", !.ip = ip, !.now = clock,
                  !.ret = <<is_ip_whitelisted(ip, cfg.whitelist)>>]
    /\ UNCHANGED <<cfg, clock, ip_to_timestamps, ip_to_usernames, adds,
                   ipset_exists, members, rules, ledger, prevCall, running>>

InitWl ==
    /\ InitCommon
    /\ TailIdle
    /\ cfg \in Configs(1..MaxThreshold, {MaxWindow}, {60}, ListInputs)
    /\ ipset_exists = TRUE
    /\ members = NoMembers
    /\ rules = 1

NextWl ==
    \/ \E ip \in AddrInputs : CheckWhitelist(ip) /\ UNCHANGED <<tailVars, auxVars>>
    \/ \E line \in OddLines, out \in OutTexts :
          ProcessLine(line, "none", out) /\ UNCHANGED <<tailVars, auxVars>>

SpecWl == InitWl /\ [][NextWl]_vars

----------------------------------------------------------------------------
(* detector.py: the loop body on lines that one, both or none of the grammars
   match *)

ParseLines == Lines \cup MixedLines

InitParse ==
    /\ InitCommon
    /\ TailIdle
    /\ cfg \in Configs(1..(MaxThreshold + 1), 1..MaxWindow, {60},
                       {DefaultWhitelist})
    /\ ipset_exists = TRUE
    /\ members = NoMembers
    /\ rules = 1

NextParse ==
    \/ \E line \in ParseLines, out \in OutTexts :
          ProcessLine(line, "none", out) /\ UNCHANGED <<tailVars, auxVars>>
    \/ Tick /\ UNCHANGED <<tailVars, auxVars>>

SpecParse == InitParse /\ [][NextParse]_vars

----------------------------------------------------------------------------
(* detector.py: _iter_new_lines and the path loop of parse_and_detect *)

\* DetectorConfig.auth_logs
auth_logs == <<"/var/log/auth.log", "/var/log/secure">>

\* `f = None`
NoFile == [ino |-> 0, pos |-> 0, closed |-> FALSE]

\* the text one write call appends: text of line id, nl when it ends the line
Piece(id, text, nl) == [id |-> id, text |-> text, nl |-> nl]

\* the line the log writer writes
WrittenLine ==
    <<"Failed", "password", "for", "invalid", "user", "admin", "from",
      "203.0.113.7", "port", "4444", "ssh2">>

\* a writer that writes a line in two calls: the first part, then the rest
FirstPart(line) == SubSeq(line, 1, 3)

Rest(line) == SubSeq(line, 4, Len(line))

\* the index of the last piece f.readline() returns from position pos: the
\* first piece that ends a line, or the end of the file
RECURSIVE LineEnd(_, _)
LineEnd(data, pos) ==
    IF pos >= Len(data) THEN Max(pos, Len(data))
    ELSE IF data[pos + 1].nl THEN pos + 1
    ELSE LineEnd(data, pos + 1)

\* f.readline(): the pieces read and the position after them
readline(data, pos) ==
    IF pos >= Len(data) THEN [next_line |-> <<>>, pos |-> pos]
    ELSE [next_line |-> SubSeq(data, pos + 1, LineEnd(data, pos)),
          pos |-> LineEnd(data, pos)]

RECURSIVE Text(_)
Text(next_line) ==
    IF next_line = <<>> THEN <<>>
    ELSE next_line[1].text \o Text(Tail(next_line))

\* `yield next_line.rstrip("\n")`: the text without the newline, with the
\* pieces it was read from
Item(path, next_line) ==
    [path |-> path, text |-> Text(next_line), read |-> next_line]

\* a mutant of seek_end: the file is read from its start
SeekStart(data) == 0

\* `f.seek(0, os.SEEK_END)`
seek_end(data) == Len(data)

\* a mutant of MustReopen: the file is reopened at every poll
ReopenAlways(inode, st_ino) == TRUE

\* `if inode != st.st_ino`
MustReopen(inode, st_ino) == inode # st_ino

\* a mutant of Caught: only the missing file is handled
CaughtOnlyMissing(exc) == exc = "FileNotFoundError"

\* `except FileNotFoundError` and `except Exception`
Caught(exc) == exc \in {"FileNotFoundError", "OSError", "ValueError"}

\* where the loop goes after an exception in its body: the handlers sleep and
\* the loop polls again
AfterRaise(exc) == IF Caught(exc) THEN "stat" ELSE "raised"

\* an I/O call of the tailer either behaves or raises OSError
IoFaults == {"none", "raise"}

FaultAllowed(fault) == fault = "raise" => env.faults < MaxFaults

FaultCounted(fault) ==
    [env EXCEPT !.faults = IF fault = "raise" THEN @ + 1 ELSE @]

\* the path the tailer is on
log_path == orch.logs[orch.i]

\* `for log_path in cfg.auth_logs: if not os.path.exists(log_path): continue`
NextPath ==
    LET i == orch.i + 1
    IN  /\ orch.pc = "for"
        /\ orch' = IF i > Len(orch.logs)
                   THEN [orch EXCEPT !.i = i, !.pc = "returned"]
                   ELSE IF disk.bound[orch.logs[i]] = 0
                   THEN [orch EXCEPT !.i = i]
                   ELSE [orch EXCEPT !.i = i, !.pc = "stat", !.inode = 0,
                                     !.st = 0, !.f = NoFile]
        /\ UNCHANGED <<disk, emitted, env>>

\* `st = os.stat(path)` and the identity test
Stat(fault) ==
    LET ino == disk.bound[log_path]
        exc == IF fault = "raise" THEN "OSError"
               ELSE IF ino = 0 THEN "FileNotFoundError"
               ELSE "none"
    IN  /\ orch.pc = "stat"
        /\ FaultAllowed(fault)
        /\ orch' = IF exc # "none" THEN [orch EXCEPT !.pc = AfterRaise(exc)]
                   ELSE [orch EXCEPT
                           !.st = ino,
                           !.pc = IF MustReopen(orch.inode, ino) THEN "open"
                                  ELSE "read"]
        /\ env' = FaultCounted(fault)
        /\ UNCHANGED <<disk, emitted>>

\* `if f: f.close()`, `f = open(path)`, `f.seek(0, os.SEEK_END)`,
\* `inode = st.st_ino`
Reopen(fault) ==
    LET ino == disk.bound[log_path]
        closed == IF orch.f.ino # 0 THEN [orch.f EXCEPT !.closed = TRUE]
                  ELSE orch.f
        exc == IF fault = "raise" THEN "OSError"
               ELSE IF ino = 0 THEN "FileNotFoundError"
               ELSE "none"
    IN  /\ orch.pc = "open"
        /\ FaultAllowed(fault)
        /\ IF exc # "none" THEN
              /\ orch' = [orch EXCEPT !.f = closed, !.pc = AfterRaise(exc)]
              /\ env' = FaultCounted(fault)
           ELSE
              /\ orch' = [orch EXCEPT
                            !.f = [ino |-> ino,
                                   pos |-> seek_end(disk.data[ino]),
                                   closed |-> FALSE],
                            !.inode = orch.st,
                            !.pc = "read"]
              /\ env' = [env EXCEPT
                           !.opened = TRUE,
                           !.preopen =
                              IF env.opened THEN @
                              ELSE {disk.data[ino][k] :
                                      k \in 1..Len(disk.data[ino])}]
        /\ UNCHANGED <<disk, emitted>>

\* what `next_line = f.readline() if f else ""` and the test on it do: the
\* exception raised if any, the pieces read, the position afterwards
Polled(fault) ==
    LET f == orch.f
        r == IF f.ino = 0 THEN [next_line |-> <<>>, pos |-> 0]
             ELSE readline(disk.data[f.ino], f.pos)
    IN  [exc |-> IF fault = "raise" THEN "OSError"
                 ELSE IF f.ino # 0 /\ f.closed THEN "ValueError"
                 ELSE "none",
         next_line |-> r.next_line,
         pos |-> r.pos]

\* the poll: `yield next_line.rstrip("\n")` or `time.sleep(0.5)`
Read(fault) ==
    LET r == Polled(fault)
    IN  /\ orch.pc = "read"
        /\ FaultAllowed(fault)
        /\ IF r.exc # "none" THEN
              /\ orch' = [orch EXCEPT !.pc = AfterRaise(r.exc)]
              /\ emitted' = emitted
           ELSE IF r.next_line # <<>> THEN
              /\ orch' = [orch EXCEPT !.f.pos = r.pos, !.pc = "stat"]
              /\ emitted' = Append(emitted, Item(log_path, r.next_line))
           ELSE
              /\ orch' = [orch EXCEPT !.pc = "stat"]
              /\ emitted' = emitted
        /\ env' = FaultCounted(fault)
        /\ UNCHANGED disk

\* the log writer appends a whole line in one write
AppendLine(path, line) ==
    LET ino == disk.bound[path]
    IN  /\ ino # 0
        /\ env.mid = 0
        /\ env.writes < MaxWrites
        /\ disk' = [disk EXCEPT
                      !.data[ino] = Append(@, Piece(env.writes + 1, line, TRUE))]
        /\ env' = [env EXCEPT !.writes = @ + 1]
        /\ UNCHANGED <<orch, emitted>>

\* the log writer appends the first part of a line
AppendHead(path, line) ==
    LET ino == disk.bound[path]
    IN  /\ ino # 0
        /\ env.mid = 0
        /\ env.writes < MaxWrites
        /\ disk' = [disk EXCEPT
                      !.data[ino] =
                         Append(@, Piece(env.writes + 1, FirstPart(line), FALSE))]
        /\ env' = [env EXCEPT !.writes = @ + 1, !.mid = ino, !.torn = TRUE]
        /\ UNCHANGED <<orch, emitted>>

\* the log writer appends the rest of the line it started, with the newline
AppendRest(line) ==
    /\ env.mid # 0
    /\ disk' = [disk EXCEPT
                  !.data[env.mid] = Append(@, Piece(env.writes, Rest(line), TRUE))]
    /\ env' = [env EXCEPT !.mid = 0]
    /\ UNCHANGED <<orch, emitted>>

\* log rotation: the path is bound to a new, empty file; the old file stays
\* where it was renamed to
Rotate(path) ==
    /\ disk.bound[path] # 0
    /\ env.mid = 0
    /\ disk.used < MaxFiles
    /\ disk' = [disk EXCEPT !.bound[path] = disk.used + 1, !.used = @ + 1]
    /\ env' = [env EXCEPT !.replaced = TRUE]
    /\ UNCHANGED <<orch, emitted>>

\* the file is removed from the path
Remove(path) ==
    /\ disk.bound[path] # 0
    /\ env.mid = 0
    /\ disk' = [disk EXCEPT !.bound[path] = 0]
    /\ env' = [env EXCEPT !.replaced = TRUE]
    /\ UNCHANGED <<orch, emitted>>

\* a file is created at a path that has none
Create(path) ==
    /\ disk.bound[path] = 0
    /\ disk.used < MaxFiles
    /\ disk' = [disk EXCEPT !.bound[path] = disk.used + 1, !.used = @ + 1]
    /\ UNCHANGED <<orch, emitted, env>>

\* a line that was in the file before the tailer started
OldLine == Piece(0, WrittenLine, TRUE)

\* one watched path, present with or without earlier content, or missing
InitTail ==
    /\ InitCommon
    /\ cfg \in Configs({1}, {1}, {60}, {DefaultWhitelist})
    /\ ipset_exists = FALSE
    /\ members = NoMembers
    /\ rules = 0
    /\ \E present \in BOOLEAN, old \in {<<>>, <<OldLine>>} :
          disk = [bound |-> [p \in {auth_logs[1]} |-> IF present THEN 1 ELSE 0],
                  data |-> [k \in 1..MaxFiles |->
                              IF present /\ k = 1 THEN old ELSE <<>>],
                  used |-> IF present THEN 1 ELSE 0]
    /\ orch = [logs |-> <<auth_logs[1]>>, i |-> 0, pc |-> "for", inode |-> 0,
               st |-> 0, f |-> NoFile]
    /\ emitted = <<>>
    /\ env = [writes |-> 0, faults |-> 0, mid |-> 0, torn |-> FALSE,
              replaced |-> FALSE, opened |-> FALSE, preopen |-> {}]

\* one step of the generator and of the loop around it
TailerStep ==
    \/ NextPath
    \/ \E fault \in IoFaults : Stat(fault)
    \/ \E fault \in IoFaults : Reopen(fault)
    \/ \E fault \in IoFaults : Read(fault)

NextTail ==
    \/ NextPath /\ UNCHANGED <<coreVars, auxVars>>
    \/ \E fault \in IoFaults : Stat(fault) /\ UNCHANGED <<coreVars, auxVars>>
    \/ \E fault \in IoFaults : Reopen(fault) /\ UNCHANGED <<coreVars, auxVars>>
    \/ \E fault \in IoFaults : Read(fault) /\ UNCHANGED <<coreVars, auxVars>>
    \/ AppendLine(auth_logs[1], WrittenLine) /\ UNCHANGED <<coreVars, auxVars>>
    \/ AppendHead(auth_logs[1], WrittenLine) /\ UNCHANGED <<coreVars, auxVars>>
    \/ AppendRest(WrittenLine) /\ UNCHANGED <<coreVars, auxVars>>
    \/ Rotate(auth_logs[1]) /\ UNCHANGED <<coreVars, auxVars>>
    \/ Remove(auth_logs[1]) /\ UNCHANGED <<coreVars, auxVars>>
    \/ Create(auth_logs[1]) /\ UNCHANGED <<coreVars, auxVars>>

SpecTail == InitTail /\ [][NextTail]_vars

\* the tailer with a writer that writes whole lines
NextTailLive ==
    \/ NextPath /\ UNCHANGED <<coreVars, auxVars>>
    \/ \E fault \in IoFaults : Stat(fault) /\ UNCHANGED <<coreVars, auxVars>>
    \/ \E fault \in IoFaults : Reopen(fault) /\ UNCHANGED <<coreVars, auxVars>>
    \/ \E fault \in IoFaults : Read(fault) /\ UNCHANGED <<coreVars, auxVars>>
    \/ AppendLine(auth_logs[1], WrittenLine) /\ UNCHANGED <<coreVars, auxVars>>
    \/ Rotate(auth_logs[1]) /\ UNCHANGED <<coreVars, auxVars>>
    \/ Remove(auth_logs[1]) /\ UNCHANGED <<coreVars, auxVars>>
    \/ Create(auth_logs[1]) /\ UNCHANGED <<coreVars, auxVars>>

\* the generator is resumed as long as its consumer asks for the next line,
\* and its sleeps end
SpecTailLive ==
    InitTail /\ [][NextTailLive]_vars /\ WF_vars(TailerStep /\ UNCHANGED <<coreVars, auxVars>>)

\* the adds of ip inside (now - window_seconds, now]
InWindow(ip, now) ==
    {i \in 1..Len(adds[ip]) :
        now - cfg.window_seconds < adds[ip][i] /\ adds[ip][i] <= now}

\* C1: after adds with non-decreasing timestamps, count(ip, now) with now not
\* earlier than the last add equals the number of adds with timestamp in
\* (now - window_seconds, now]; an attempt exactly window_seconds old is not
\* counted.
C1_WindowCountExclusive ==
    (/\ call.op = "count"
     /\ NonDecreasing(adds[call.ip])
     /\ adds[call.ip] # <<>> => call.now >= Last(adds[call.ip]))
    => call.n = Cardinality(InWindow(call.ip, call.now))

----------------------------------------------------------------------------
(* Claims about the firewall controller *)

\* every tool run of call c behaved as the tool itself does (no injected fault)
Working(c) == \A j \in 1..Len(c.cmds) : c.cmds[j].fault = "none"

\* the commands call c ran, in order
CmdNames(c) == [j \in 1..Len(c.cmds) |-> c.cmds[j].cmd]

Ran(c, name) == \E j \in 1..Len(c.cmds) : c.cmds[j].cmd = name

RanWith(c, name, status) ==
    \E j \in 1..Len(c.cmds) : c.cmds[j].cmd = name /\ c.cmds[j].status = status

TwoEnsures ==
    /\ prevCall.op = "ensure_firewall"
    /\ call.op = "ensure_firewall"
    /\ Working(prevCall)
    /\ Working(call)
    /\ prevCall.pre.rules <= 1

\* C4: from any backend state (set absent or present, rule absent or present)
\* and with tool runs that succeed, two calls of ensure_firewall in sequence
\* leave the set and exactly one rule, and the second call runs only the two
\* queries.
C4_EnsureTwiceIdempotent ==
    TwoEnsures =>
        /\ ipset_exists
        /\ rules = 1
        /\ CmdNames(call) = <<"ipset_list", "iptables_check">>

C4_Witness ==
    /\ TwoEnsures
    /\ ~prevCall.pre.ipset_exists
    /\ prevCall.pre.rules = 0
    /\ CmdNames(prevCall) =
          <<"ipset_list", "ipset_create", "iptables_check", "iptables_insert">>

BlockThenUnblock ==
    /\ prevCall.op = "block_ip"
    /\ call.op = "unblock_ip"
    /\ call.ip = prevCall.ip
    /\ ~prevCall.raised
    /\ ~call.raised

\* the addresses list_blocked returns in the current state
ListedNow(form) ==
    LET ret == list_blocked(Backend, "none", form).ret
    IN  {ret[i] : i \in 1..Len(ret)}

\* C5: after block_ip(A, d) then unblock_ip(A) on an existing set, whether or
\* not A was a member before, list_blocked does not contain A; the removal run
\* of unblock_ip behaves as the tool does.
C5_RoundTrip ==
    (BlockThenUnblock /\ prevCall.pre.ipset_exists /\ Working(call))
    => \A form \in HeaderForms : call.ip \notin ListedNow(form)

C5_Witness ==
    /\ BlockThenUnblock
    /\ prevCall.pre.ipset_exists
    /\ Working(call)
    /\ RanWith(prevCall, "ipset_add", "ok")
    /\ RanWith(call, "ipset_del", "ok")
    /\ DOMAIN members # {}

\* C7: list_blocked returns exactly the sorted, deduplicated member addresses
\* of the listing; no header line of the tool output appears in the result.
C7_ListIsMembers ==
    (call.op = "list_blocked" /\ RanWith(call, "ipset_list", "ok"))
    => call.ret = Sorted(DOMAIN members)

C9_ReblockRefreshes ==
    (/\ call.op = "block_ip"
     /\ call.pre.ipset_exists
     /\ call.pre.member
     /\ Working(call))
    => /\ Last(ledger).status = "ok"
       /\ members[call.ip] = Max(1, cfg.block_seconds)
       /\ call.hooks # <<>>

\* C10: in ensure_firewall a failed create records one error and the rule is
\* neither queried nor inserted; a failed insert records one error and no ok
\* record; in neither case does the call raise.
C10_EnsureStopsOnFailure ==
    /\ (call.op = "ensure_firewall" /\ RanWith(call, "ipset_create", "fail"))
       => /\ call.appended = 1
          /\ Last(ledger).action = "ensure_firewall"
          /\ Last(ledger).status = "error"
          /\ ~Ran(call, "iptables_check")
          /\ ~Ran(call, "iptables_insert")
          /\ ~call.raised
    /\ (call.op = "ensure_firewall" /\ RanWith(call, "iptables_insert", "fail"))
       => /\ call.appended = 1
          /\ Last(ledger).action = "ensure_firewall"
          /\ Last(ledger).status = "error"
          /\ ~call.raised

C10_Witness ==
    /\ prevCall.op = "ensure_firewall"
    /\ RanWith(prevCall, "ipset_create", "fail")
    /\ call.op = "ensure_firewall"
    /\ RanWith(call, "iptables_insert", "fail")

----------------------------------------------------------------------------
(* Claims about the detection loop *)

\* the lines counted for address a so far all lie within window_seconds
Burst(a) ==
    /\ adds[a] # <<>>
    /\ Last(adds[a]) - adds[a][1] < cfg.window_seconds

\* C2: a burst of N lines for one address within window_seconds, N at least
\* failures_threshold (N >= 2 * failures_threshold included), calls block_ip
\* exactly once for that address, and right after the decision the address has
\* no timestamps and no usernames in the tracker.
C2_OneBlockPerBurst ==
    /\ \A a \in Addrs :
          (running /\ Burst(a) /\ Len(adds[a]) >= cfg.failures_threshold)
          => Len(BlocksOf(a)) = 1
    /\ (call.op = "line" /\ call.decided /\ ~call.raised)
       => /\ ip_to_timestamps[call.ip] = <<>>
          /\ ip_to_usernames[call.ip] = {}

\* the addresses inside some parsable network of each whitelist, computed once
InsideWhitelist ==
    [whitelist \in Whitelists |->
        {a \in Addrs :
            \E i \in 1..Len(whitelist) :
               /\ ip_network(whitelist[i]) # Invalid
               /\ InNetwork(ip_address(a), ip_network(whitelist[i]))}]

\* C3: for an address inside a parsable network of the whitelist, block_ip is
\* never called, however many matching lines arrive, and processing such a
\* line leaves the tracker as it was.
C3_WhitelistedNeverBlocked ==
    \A a \in InsideWhitelist[cfg.whitelist] :
       /\ BlocksOf(a) = <<>>
       /\ EventsOf(a) = <<>>
       /\ adds[a] = <<>>
       /\ ip_to_timestamps[a] = <<>>
       /\ ip_to_usernames[a] = {}
       /\ (call.op = "line" /\ call.ip = a)
          => /\ ~call.decided
             /\ call.cmds = <<>>
             /\ call.appended = 0

C3_Witness ==
    /\ call.op = "line"
    /\ call.ip = "203.0.113.7"
    /\ call.ip \in InsideWhitelist[cfg.whitelist]
    /\ cfg.whitelist = <<"bogus", "203.0.113.9/24">>
    /\ cfg.failures_threshold = 1
    /\ BlocksOf("10.1.2.3") # <<>>
    /\ Len(EventsOf("10.1.2.3")) >= 2

\* the last line processed was the T-th line for its address, all T within
\* window_seconds, with a working backend whose set exists without the address
ThresholdLine ==
    /\ call.op = "line"
    /\ call.ip \in Addrs
    /\ call.ip \notin InsideWhitelist[cfg.whitelist]
    /\ Len(adds[call.ip]) = cfg.failures_threshold
    /\ Burst(call.ip)
    /\ call.pre.ipset_exists
    /\ ~call.pre.member
    /\ Working(call)
    /\ ~call.raised

\* C6: with threshold T and a working backend whose set exists and does not
\* hold A, T matching lines for a non-whitelisted A within window_seconds give
\* T event records for A, one block record for A with the configured duration
\* and status ok, and list_blocked then contains A.
C6_EndToEnd ==
    ThresholdLine =>
        /\ call.decided
        /\ Len(EventsOf(call.ip)) = cfg.failures_threshold
        /\ Len(BlocksOf(call.ip)) = 1
        /\ BlocksOf(call.ip)[1].duration_sec = cfg.block_seconds
        /\ BlocksOf(call.ip)[1].status = "ok"
        /\ \A form \in HeaderForms : call.ip \in ListedNow(form)

C6_Witness ==
    /\ ThresholdLine
    /\ call.ip = "203.0.113.7"
    /\ cfg.failures_threshold = MaxThreshold
    /\ RanWith(call, "ipset_add", "ok")
    /\ Len(EventsOf(call.ip)) = MaxThreshold

----------------------------------------------------------------------------
(* parse_and_detect over the configured paths: the tailer feeds the loop body *)

\* a line of sshd in the log
SshdLine ==
    <<"sshd[1]:", "Failed", "password", "for", "invalid", "user", "admin", "from",
      "203.0.113.7", "port", "4444", "ssh2">>

\* the tailer has opened a file
Started == orch.pc \in {"stat", "open", "read"} /\ orch.f.ino # 0

\* `for line in _iter_new_lines(log_path)`: one poll, and the loop body on
\* the line if one is yielded
ReadDetect(fault, out) ==
    LET r == Polled("none")
    IN  /\ Read("none")
        /\ IF r.exc = "none" /\ r.next_line # <<>>
           THEN ProcessLine(Text(r.next_line), fault, out)
           ELSE UNCHANGED coreVars

\* the writer of a log appends a line once detection is up
AppendWhenUp(path, line) == Started /\ AppendLine(path, line)

\* both configured paths exist, or only the second one does
InitLogs ==
    /\ InitCommon
    /\ cfg \in Configs(1..MaxThreshold, {1}, {60}, {DefaultWhitelist})
    /\ ipset_exists = TRUE
    /\ members = NoMembers
    /\ rules = 1
    /\ \E first \in BOOLEAN :
          disk = [bound |-> [p \in {auth_logs[1], auth_logs[2]} |->
                               IF p = auth_logs[2] THEN 2
                               ELSE IF first THEN 1 ELSE 0],
                  data |-> [k \in 1..MaxFiles |-> <<>>],
                  used |-> 2]
    /\ orch = [logs |-> auth_logs, i |-> 0, pc |-> "for", inode |-> 0,
               st |-> 0, f |-> NoFile]
    /\ emitted = <<>>
    /\ env = [writes |-> 0, faults |-> 0, mid |-> 0, torn |-> FALSE,
              replaced |-> FALSE, opened |-> FALSE, preopen |-> {}]

\* one step of parse_and_detect
DetectStep ==
    \/ NextPath /\ UNCHANGED <<coreVars, auxVars>>
    \/ Stat("none") /\ UNCHANGED <<coreVars, auxVars>>
    \/ Reopen("none") /\ UNCHANGED <<coreVars, auxVars>>
    \/ \E out \in OutTexts : ReadDetect("none", out) /\ UNCHANGED auxVars

NextLogs ==
    \/ NextPath /\ UNCHANGED <<coreVars, auxVars>>
    \/ Stat("none") /\ UNCHANGED <<coreVars, auxVars>>
    \/ Reopen("none") /\ UNCHANGED <<coreVars, auxVars>>
    \/ \E out \in OutTexts : ReadDetect("none", out) /\ UNCHANGED auxVars
    \/ \E k \in 1..2 : AppendWhenUp(auth_logs[k], SshdLine) /\ UNCHANGED <<coreVars, auxVars>>
    \/ Tick /\ UNCHANGED <<tailVars, auxVars>>

\* parse_and_detect keeps running: its polls and its sleeps end
SpecLogs == InitLogs /\ [][NextLogs]_vars /\ WF_vars(DetectStep)

----------------------------------------------------------------------------
(* parse_and_detect started while configured paths are missing *)

\* the first path is missing at the start, the second is missing or exists
InitStart ==
    /\ InitCommon
    /\ cfg \in Configs(1..MaxThreshold, {1}, {60}, {DefaultWhitelist})
    /\ ipset_exists = TRUE
    /\ members = NoMembers
    /\ rules = 1
    /\ \E second \in BOOLEAN :
          disk = [bound |-> [p \in {auth_logs[1], auth_logs[2]} |->
                               IF p = auth_logs[2] /\ second THEN 1 ELSE 0],
                  data |-> [k \in 1..MaxFiles |-> <<>>],
                  used |-> IF second THEN 1 ELSE 0]
    /\ orch = [logs |-> auth_logs, i |-> 0, pc |-> "for", inode |-> 0,
               st |-> 0, f |-> NoFile]
    /\ emitted = <<>>
    /\ env = [writes |-> 0, faults |-> 0, mid |-> 0, torn |-> FALSE,
              replaced |-> FALSE, opened |-> FALSE, preopen |-> {}]

NextStart ==
    \/ NextPath /\ UNCHANGED <<coreVars, auxVars>>
    \/ Stat("none") /\ UNCHANGED <<coreVars, auxVars>>
    \/ Reopen("none") /\ UNCHANGED <<coreVars, auxVars>>
    \/ \E out \in OutTexts : ReadDetect("none", out) /\ UNCHANGED auxVars
    \/ \E k \in 1..2 : Create(auth_logs[k]) /\ UNCHANGED <<coreVars, auxVars>>
    \/ \E k \in 1..2 : AppendLine(auth_logs[k], SshdLine) /\ UNCHANGED <<coreVars, auxVars>>
    \/ Tick /\ UNCHANGED <<tailVars, auxVars>>

SpecStart == InitStart /\ [][NextStart]_vars /\ WF_vars(DetectStep)

----------------------------------------------------------------------------
(* Claims about the tailer *)

\* the pieces the tailer has yielded, in order
EmittedPieces ==
    LET RECURSIVE Flat(_)
        Flat(items) == IF items = <<>> THEN <<>>
                       ELSE items[1].read \o Flat(Tail(items))
    IN  Flat(emitted)

\* C11: nothing the tailer yields was in the file when the tailer first opened
\* it; every yielded text was appended after that first open.
C11_NoHistoricalContent ==
    \A k \in 1..Len(EmittedPieces) : EmittedPieces[k] \notin env.preopen

C11_Witness ==
    /\ OldLine \in env.preopen
    /\ env.replaced
    /\ Len(emitted) >= 2
    /\ emitted[1].read[1].id = 1
    /\ emitted[2].read[1].id = MaxWrites

\* only whole lines were appended, and the path kept its file
AppendOnly == ~env.torn /\ ~env.replaced

\* C12: while the file is only appended to, line by line, the tailer yields
\* the lines appended after its first open in the order of the file, each
\* once, and none between its first and its current position is skipped.
C12_OnceInOrder ==
    (AppendOnly /\ env.opened)
    => LET data == disk.data[orch.f.ino]
           start == Cardinality(env.preopen)
       IN  /\ orch.f.pos >= start
           /\ emitted = [k \in 1..(orch.f.pos - start) |->
                           Item(log_path, <<data[start + k]>>)]

C12_Witness ==
    /\ AppendOnly
    /\ OldLine \in env.preopen
    /\ env.faults > 0
    /\ Len(emitted) = MaxWrites
    /\ \A k \in 1..MaxWrites : emitted[k].text = WrittenLine

\* C13: the tailer yields complete lines only; a line whose first part is in
\* the file without its newline at a poll is not yielded as a fragment.
C13_OnlyCompleteLines ==
    (~env.replaced /\ \A q \in env.preopen : q.nl)
    => \A k \in 1..Len(emitted) : emitted[k].text = WrittenLine

\* the path was replaced once and the tailer, which had opened the first
\* file, now has the new file open
ReopenedAfterRotation ==
    /\ ~env.torn
    /\ env.faults = 0
    /\ OldLine \in env.preopen
    /\ disk.used = 2
    /\ disk.bound[log_path] = 2
    /\ orch.inode = 2
    /\ orch.f = [ino |-> 2, pos |-> orch.f.pos, closed |-> FALSE]

\* C14: across a rotation no line is yielded twice, and every line appended
\* to the old file before the rotation is yielded; only lines written to the
\* new file between the identity check and the reopen can be lost.
C14_RotationKeepsOldTail ==
    /\ \A j, k \in 1..Len(EmittedPieces) :
          EmittedPieces[j] = EmittedPieces[k] => j = k
    /\ ReopenedAfterRotation
       => \A k \in 1..Len(disk.data[1]) :
             disk.data[1][k] \notin env.preopen
             => \E j \in 1..Len(EmittedPieces) :
                   EmittedPieces[j] = disk.data[1][k]

\* the generator is inside its loop
Tailing == orch.pc \in {"stat", "open", "read"}

\* the file the path of the tailer is bound to, 0 if none
BoundNow == IF Tailing THEN disk.bound[log_path] ELSE 0

\* the content of the file the tailer has open
OpenData == IF orch.f.ino = 0 THEN <<>> ELSE disk.data[orch.f.ino]

\* the tailer has file k open, knows its identity, and the path is bound to it
Settled(k) ==
    /\ Tailing
    /\ BoundNow = k
    /\ orch.inode = k
    /\ orch.f = [ino |-> k, pos |-> orch.f.pos, closed |-> FALSE]

\* line n is in the file the tailer is settled on, after its position
Pending(n) ==
    /\ orch.f.ino # 0
    /\ Settled(orch.f.ino)
    /\ \E k \in (orch.f.pos + 1)..Len(OpenData) : OpenData[k].id = n

Yielded(n) == \E k \in 1..Len(EmittedPieces) : EmittedPieces[k].id = n

\* C15: the generator never returns and never raises: a missing file and an
\* error of stat, open or read lead to a sleep and a retry; a file at the
\* path is eventually opened, and a line appended to the opened file is
\* eventually yielded, unless the path is bound to another file first.
C15_RetriesForever ==
    /\ [](orch.pc # "raised")
    /\ [][Tailing => Tailing']_vars
    /\ \A k \in 1..MaxFiles :
          (Tailing /\ BoundNow = k)
             ~> (Settled(k) \/ (Tailing /\ BoundNow # k))
    /\ \A n \in 1..MaxWrites :
          Pending(n) ~> (Yielded(n) \/ (Tailing /\ BoundNow # orch.f.ino))

C15_Witness ==
    /\ env.faults = MaxFaults
    /\ env.replaced
    /\ disk.used = MaxFiles
    /\ Settled(MaxFiles)
    /\ Yielded(MaxWrites)

\* line n has been written to the file of some configured path
Written(n) ==
    \E k \in 1..Len(auth_logs) :
       LET ino == disk.bound[auth_logs[k]]
       IN  /\ ino # 0
           /\ \E j \in 1..Len(disk.data[ino]) : disk.data[ino][j].id = n

\* C16: every existing configured path has its own polling loop: a matching
\* line appended to any of them once detection is up, not only to the first,
\* is eventually read, parsed and counted.
C16_EveryPathWatched ==
    \A n \in 1..MaxWrites : Written(n) ~> (Yielded(n) /\ EventCount >= 1)

----------------------------------------------------------------------------
(* Claims about the ledger and about failures in the detection loop *)

\* the records a step has appended to the ledger
Appended == SubSeq(ledger', Len(ledger) + 1, Len(ledger'))

\* the line just processed matches a grammar with an address off the whitelist
Counted(c) ==
    /\ Parsed[c.line] # NoMatch
    /\ Parsed[c.line].ip \notin InsideWhitelist[cfg.whitelist]

\* C17: a line that matches a grammar with a non-whitelisted address appends
\* exactly one event record, before anything else the line appends, whether
\* or not a decision fires and however block_ip ends; any other line appends
\* nothing.
C17_OneEventPerCountedLine ==
    [][(clock' = clock /\ call'.op = "line")
       => IF Counted(call')
          THEN /\ Appended # <<>>
               /\ Appended[1] =
                     insert_event(clock, clock, Parsed[call'.line].ip,
                                  Parsed[call'.line].user, "failed_login",
                                  call'.line)
               /\ \A k \in 2..Len(Appended) : Appended[k].kind = "action"
          ELSE Appended = <<>>]_vars

C17_Witness ==
    /\ call.op = "line"
    /\ Counted(call)
    /\ call.decided
    /\ call.raised
    /\ Last(ledger).kind = "event"
    /\ Last(ledger).raw = call.line
    /\ EventCount = 2

\* the events for address a among the first n records of the ledger
EventsBefore(a, n) ==
    {k \in 1..n : ledger[k].kind = "event" /\ ledger[k].src_ip = a}

\* C18: in every prefix of the ledger, a block record for A comes right after
\* the event record of the line that triggered it, and at least
\* failures_threshold event records for A precede it.
C18_EventBeforeAction ==
    \A i \in 1..Len(ledger) :
       (ledger[i].kind = "action" /\ ledger[i].action = "block")
       => /\ i > 1
          /\ ledger[i - 1].kind = "event"
          /\ ledger[i - 1].src_ip = ledger[i].src_ip
          /\ Cardinality(EventsBefore(ledger[i].src_ip, i - 1))
                >= cfg.failures_threshold

C18_Witness ==
    /\ cfg.failures_threshold = MaxThreshold
    /\ \E a \in Addrs : Len(BlocksOf(a)) = 2 /\ Len(EventsOf(a)) = 2 * MaxThreshold

\* C19: no outcome of the tool run of a block, a nonzero exit or a failure to
\* launch the tool, ends the detection loop: the failure is recorded as an
\* action record with status error and later lines are still processed.
C19_BlockFailureNotFatal ==
    (call.op = "line" /\ call.decided /\ ~Working(call))
    => /\ running
       /\ Last(ledger).kind = "action"
       /\ Last(ledger).action = "block"
       /\ Last(ledger).status = "error"

\* the address parses and lies inside some entry of the whitelist that parses
InsideSome(ip, whitelist) ==
    /\ ip_address(ip) # Invalid
    /\ \E i \in 1..Len(whitelist) :
          /\ ip_network(whitelist[i]) # Invalid
          /\ InNetwork(ip_address(ip), ip_network(whitelist[i]))

\* the addresses inside each whitelist, computed once
InsideInputs ==
    [whitelist \in ListInputs |-> {a \in AddrInputs : InsideSome(a, whitelist)}]

\* the addresses that are not IP literals
NotLiterals == {a \in AddrInputs : ip_address(a) = Invalid}

\* C20: is_ip_whitelisted answers for every whitelist and address: an entry
\* that is not a network is skipped and the entries after it still count, an
\* address that is not an IP literal is not whitelisted, and a line with such
\* an address is recorded, counted and decided on like any other.
C20_MalformedInputTolerated ==
    /\ call.op = "is_ip_whitelisted"
       => call.ret = <<call.ip \in InsideInputs[cfg.whitelist]>>
    /\ (call.op = "line" /\ call.ip \in NotLiterals)
       => /\ call.appended >= 1
          /\ ledger[Len(ledger) - call.appended + 1] =
                insert_event(call.now, call.now, call.ip,
                             Parsed[call.line].user, "failed_login", call.line)
          /\ call.n >= 1
          /\ Last(adds[call.ip]) = call.now
          /\ call.decided <=> call.n >= cfg.failures_threshold

C20_Witness ==
    /\ cfg.whitelist = <<"bogus", "10.0.0.0/8">>
    /\ call.op = "is_ip_whitelisted"
    /\ call.ip = "10.1.2.3"
    /\ call.ret = <<TRUE>>
    /\ Len(EventsOf(MalformedAddr)) = cfg.failures_threshold
    /\ Len(BlocksOf(MalformedAddr)) = 1

----------------------------------------------------------------------------
(* Claims about the parser *)

\* what each grammar finds in each line, computed once
FailedHit == [line \in ParseLines |-> FailedSearch(line)]

InvalidHit == [line \in ParseLines |-> InvalidSearch(line)]

\* the match the first grammar that matches gives
FirstHit(line) ==
    IF FailedHit[line] # NoMatch THEN FailedHit[line] ELSE InvalidHit[line]

\* C21: the 'Failed password' grammar is tried first and the 'Invalid user'
\* grammar second; the event of a line has the username and the address of the
\* first grammar that matched; a line neither grammar matches writes no
\* event, leaves the ledger and the tracker as they were and does not stop the
\* loop.
C21_FirstGrammarWins ==
    [][(clock' = clock /\ call'.op = "line")
       => IF FirstHit(call'.line) = NoMatch
          THEN /\ ledger' = ledger
               /\ ip_to_timestamps' = ip_to_timestamps
               /\ ip_to_usernames' = ip_to_usernames
               /\ running'
          ELSE /\ call'.ip = FirstHit(call'.line).ip
               /\ IF call'.ip \in InsideWhitelist[cfg.whitelist]
                  THEN ledger' = ledger
                  ELSE /\ Appended # <<>>
                       /\ Appended[1].kind = "event"
                       /\ Appended[1].src_ip = FirstHit(call'.line).ip
                       /\ Appended[1].username = FirstHit(call'.line).user]_vars

C21_Witness ==
    /\ call.op = "line"
    /\ call.line \in MixedLines
    /\ FailedHit[call.line] # NoMatch
    /\ InvalidHit[call.line] # NoMatch
    /\ FailedHit[call.line] # InvalidHit[call.line]
    /\ Last(ledger).kind = "event"
    /\ Last(ledger).raw = call.line
    /\ Last(ledger).src_ip = "203.0.113.7"
    /\ Last(ledger).username = "root"
    /\ \E k \in 1..Len(ledger) : ledger[k].reason = "failed_login" /\ ledger[k].username = "test"

----------------------------------------------------------------------------
(* Claims about what the controller records and whom it notifies *)

\* the hooks block_ip calls after an add that exited with status zero
BlockHooks(ip, reason, duration) ==
    <<[hook |-> "geoip_lookup", ip |-> ip],
      [hook |-> "notify_ip_blocked", ip |-> ip, reason |-> reason,
       duration |-> duration]>>

\* C22: block_ip calls the geolocation lookup and notify_ip_blocked, with the
\* address and the reason, when the add exited with status zero, and calls
\* neither of them when the add failed.
C22_HooksOnlyOnSuccess ==
    call.op = "block_ip"
    => IF RanWith(call, "ipset_add", "ok")
       THEN call.hooks =
               BlockHooks(call.ip, "Brute force detected", cfg.block_seconds)
       ELSE call.hooks = <<>>

C22_Witness ==
    /\ call.op = "block_ip"
    /\ RanWith(call, "ipset_add", "ok")
    /\ Len(call.hooks) = 2
    /\ prevCall.op = "block_ip"
    /\ RanWith(prevCall, "ipset_add", "fail")
    /\ prevCall.hooks = <<>>

\* C23: for block_ip and unblock_ip the recorded status is ok when the tool
\* exited with zero and error otherwise, and the recorded message is the
\* tool's stdout after a success and the tool's stderr after a failure, also
\* when a failed run printed on both streams.
C23_MessageFollowsStatus ==
    (call.op \in {"block_ip", "unblock_ip"} /\ ~call.raised)
    => /\ Last(ledger).status
             = (IF call.cmds[1].status = "ok" THEN "ok" ELSE "error")
       /\ Last(ledger).message
             = OrNone(Strip(IF call.cmds[1].status = "ok"
                            THEN call.cmds[1].stdout
                            ELSE call.cmds[1].stderr))

\* C24: for every configured block duration d, zero and negative values
\* included, the expiry block_ip passes to the backend is d, and d is the
\* duration stored in the action record of the block.
C24_ExpiryIsDuration ==
    (call.op = "block_ip" /\ RanWith(call, "ipset_add", "ok"))
    => /\ members[call.ip] = cfg.block_seconds
       /\ Last(ledger).duration_sec = cfg.block_seconds

\* C25: every call of list_blocked appends exactly one action record to the
\* ledger, whether the listing succeeded or failed.
C25_ListIsRecorded ==
    call.op = "list_blocked"
    => /\ call.appended = 1
       /\ Last(ledger).kind = "action"

----------------------------------------------------------------------------
(* Claims about the window of the tracker *)

\* the usernames of the events of address a that are inside the window at now
RecentUsernames(a, now) ==
    {ledger[k].username :
        k \in {j \in EventsBefore(a, Len(ledger)) :
                  ledger[j].ts >= now - cfg.window_seconds}}

\* C26: after a line of address A has been counted, the username set of A
\* holds only usernames of attempts whose timestamps are inside the window,
\* and so do the usernames reported with a block decision.
C26_UsernamesInWindow ==
    (call.op = "line" /\ call.appended >= 1)
    => /\ ip_to_usernames[call.ip] \subseteq RecentUsernames(call.ip, call.now)
       /\ \A k \in 1..Len(call.hooks) :
             call.hooks[k].hook = "notify_brute_force_detected"
             => call.hooks[k].usernames
                   \subseteq RecentUsernames(call.ip, call.now)

\* the members of sequence q that satisfy Keep, in their order
Kept(q, Keep(_)) == SelectSeq(q, Keep)

\* C27: add(address, username, ts) appends ts, removes exactly the stored
\* timestamps t with t < ts - window_seconds, which form a prefix, adds the
\* username if one is given, and returns the length that is left, which is at
\* least 1; for non-decreasing timestamps the returned value is the number of
\* adds with ts - window_seconds <= t <= ts.
C27_AddContract ==
    [][(call'.op = "add" /\ TotalAdds' = TotalAdds + 1)
       => LET ip == call'.ip
              username == call'.args[1]
              ts == call'.args[2]
              InWin(t) == t >= ts - cfg.window_seconds
              UpTo(t) == ts - cfg.window_seconds <= t /\ t <= ts
          IN  /\ ip_to_timestamps'[ip]
                    = Kept(Append(ip_to_timestamps[ip], ts), InWin)
              /\ ip_to_usernames'[ip]
                    = (IF username # None
                       THEN ip_to_usernames[ip] \cup {username}
                       ELSE ip_to_usernames[ip])
              /\ call'.n = Len(ip_to_timestamps'[ip])
              /\ call'.n >= 1
              /\ NonDecreasing(adds'[ip])
                 => call'.n = Len(Kept(adds'[ip], UpTo))]_vars

\* C28: in every state the detection loop reaches, the stored timestamps of
\* each address are non-decreasing, and after a line of an address has been
\* counted none of its stored timestamps is older than the window: no stale
\* timestamp survives behind a newer one.
C28_TimestampsOrdered ==
    /\ \A a \in Tracked : NonDecreasing(ip_to_timestamps[a])
    /\ (call.op = "line" /\ call.appended >= 1)
       => \A k \in 1..Len(ip_to_timestamps[call.ip]) :
             ip_to_timestamps[call.ip][k] >= call.now - cfg.window_seconds

C28_Witness ==
    /\ running
    /\ call.op = "line"
    /\ call.appended >= 1
    /\ Len(ip_to_timestamps[call.ip]) = 2
    /\ ip_to_timestamps[call.ip][1] < ip_to_timestamps[call.ip][2]
    /\ adds[call.ip][1] < ip_to_timestamps[call.ip][1]

----------------------------------------------------------------------------
(* Claims about start-up and about failed blocks *)

\* line n is in the file at the first configured path
WrittenToFirst(n) ==
    LET ino == disk.bound[auth_logs[1]]
    IN  /\ ino # 0
        /\ \E j \in 1..Len(disk.data[ino]) : disk.data[ino][j].id = n

\* C29: a configured path that is missing when detection starts is retried:
\* parse_and_detect never returns, also when no configured path exists at the
\* start, and a line appended to the file after it was created at such a path
\* is eventually processed.
C29_MissingPathRetried ==
    /\ [](orch.pc # "returned")
    /\ \A n \in 1..MaxWrites : WrittenToFirst(n) ~> Yielded(n)

\* the index of the last block record for address a before index i, or 0
PrevBlock(a, i) ==
    LET before == {k \in 1..(i - 1) :
                      /\ ledger[k].kind = "action"
                      /\ ledger[k].action = "block"
                      /\ ledger[k].src_ip = a}
    IN  IF before = {} THEN 0 ELSE CHOOSE k \in before : \A j \in before : j <= k

\* the events for a after index lo and before index i that are inside the
\* window at the time of record i
FreshEvents(a, lo, i) ==
    {k \in (lo + 1)..(i - 1) :
        /\ ledger[k].kind = "event"
        /\ ledger[k].src_ip = a
        /\ ledger[k].ts >= ledger[i].ts - cfg.window_seconds}

\* C30: a failed block is not retried: after a decision whose block failed
\* the window of the address is empty, a line that does not reach the
\* threshold runs no tool, and every block attempt for an address comes after
\* failures_threshold events of that address that follow its previous block
\* attempt and lie inside one window.
C30_FailedBlockNotRetried ==
    /\ (call.op = "line" /\ call.decided /\ ~call.raised
          /\ ~RanWith(call, "ipset_add", "ok"))
       => /\ ip_to_timestamps[call.ip] = <<>>
          /\ ip_to_usernames[call.ip] = {}
    /\ (call.op = "line" /\ ~call.decided) => call.cmds = <<>>
    /\ \A i \in 1..Len(ledger) :
          (ledger[i].kind = "action" /\ ledger[i].action = "block")
          => Cardinality(FreshEvents(ledger[i].src_ip,
                                     PrevBlock(ledger[i].src_ip, i), i))
                >= cfg.failures_threshold

C30_Witness ==
    /\ cfg.failures_threshold = MaxThreshold
    /\ \E a \in Addrs :
          /\ Len(BlocksOf(a)) = 2
          /\ BlocksOf(a)[1].status = "error"
          /\ Len(EventsOf(a)) = 2 * MaxThreshold

----------------------------------------------------------------------------
(* Claims about concurrent calls of ensure_firewall *)

\* process p makes a tool run in this step
Runs(p) == frames[p].pc \in {"list", "create", "check", "insert"} /\ frames'[p] # frames[p]

\* C31: ensure_firewall is not serialized. A call that saw the rule absent
\* issues its insert whatever another call has inserted since, so a rule
\* beyond the first is added exactly by a call whose check predates the
\* other call's insert; and a call that saw the set absent and finds it
\* created by the other call when it runs create records an error and ends
\* without touching the rule.
C31_EnsureRaces ==
    [][\A p \in Procs :
          /\ (Runs(p) /\ rules' > rules)
             => frames[p].pc = "insert" /\ ~frames[p].sawRule
          /\ (Runs(p) /\ frames[p].pc = "insert" /\ ipset_exists
                /\ frames'[p].fault = "none")
             => rules' = rules + 1
          /\ (Runs(p) /\ frames[p].pc = "create" /\ ipset_exists /\ ~frames'[p].raised)
             => /\ ~frames[p].sawSet
                /\ Len(ledger') = Len(ledger) + 1
                /\ Last(ledger').action = "ensure_firewall"
                /\ Last(ledger').status = "error"
                /\ frames'[p].pc = "done"
                /\ rules' = rules]_vars

\* with no tool failing on its own, one call lost the create and recorded
\* an error, and two calls inserted the same rule
C31_Witness ==
    /\ rules = 2
    /\ \A p \in Procs : frames[p].pc = "done" /\ ~frames[p].faulted
    /\ \E k \in 1..Len(ledger) :
          ledger[k].action = "ensure_firewall" /\ ledger[k].status = "error"

----------------------------------------------------------------------------
(* Claims about the loop body of parse_and_detect *)

\* a decision for an address is in flight: its add has reached the threshold
\* and the clear() calls have not run
InFlight == body.pc \in {"block", "notify", "clear"}

\* C32: between the add that reaches the threshold and the reset that
\* follows the block, no add is applied for the address of the decision and
\* its deque is not touched, whatever is written to the log meanwhile: the
\* reset erases exactly the timestamps that were counted in the decision,
\* and the count of the decision was taken from a fully evicted deque.
C32_WindowSerialized ==
    [][InFlight =>
         /\ adds'[body.ip] = adds[body.ip]
         /\ ip_to_timestamps[body.ip] = body.counted
         /\ Len(body.counted) = body.current
         /\ \A k \in 1..Len(body.counted) :
               body.counted[k] >= Last(body.counted) - cfg.window_seconds
         /\ \/ ip_to_timestamps'[body.ip] = ip_to_timestamps[body.ip]
            \/ body.pc = "clear" /\ ip_to_timestamps'[body.ip] = <<>>]_vars

\* the reset has run while a line of the same address was waiting in the log
C32_Witness ==
    /\ body.pc = "for"
    /\ body.ip # ""
    /\ ip_to_timestamps[body.ip] = <<>>
    /\ body.pending # <<>>
    /\ Parsed[Head(body.pending)].ip = body.ip

\* C33: once parse_and_detect has finished with a line, every address has
\* fewer than failures_threshold timestamps in its deque, and the count a
\* block decision reports is failures_threshold exactly.
C33_CountBelowThreshold ==
    /\ running =>
          \A a \in Tracked : Len(ip_to_timestamps[a]) < cfg.failures_threshold
    /\ (call.op = "line" /\ call.decided) => call.n = cfg.failures_threshold

\* a decision at a threshold above one has been taken and the loop goes on
C33_Witness ==
    /\ running
    /\ call.op = "line"
    /\ call.decided
    /\ cfg.failures_threshold = MaxThreshold
    /\ call.n = MaxThreshold
    /\ ip_to_timestamps[call.ip] = <<>>

----------------------------------------------------------------------------
(* Claims about the notifier *)

\* the invocation in call passed the rate limit
Passed == call.ret = <<TRUE>>

\* the notifications dispatched before the invocation in call
Before == IF Passed THEN 1..(Len(dispatched) - 1) ELSE 1..Len(dispatched)

\* C34: two notifications of the same kind for the same address are
\* dispatched at least rate_limit_seconds apart, whether or not the first
\* was delivered, and an invocation is suppressed only by a notification of
\* its own kind and address less than rate_limit_seconds before it.
C34_NoStorm ==
    /\ \A i, j \in 1..Len(dispatched) :
          (i < j /\ dispatched[i].kind = dispatched[j].kind
                 /\ dispatched[i].ip = dispatched[j].ip)
          => dispatched[j].at - dispatched[i].at >= rate_limit_seconds
    /\ call.op \in {"brute_force", "block"}
       => (Passed <=>
             ~\E k \in Before :
                 /\ dispatched[k].kind = call.op
                 /\ dispatched[k].ip = call.ip
                 /\ call.now - dispatched[k].at < rate_limit_seconds)

\* a notification that was not delivered suppresses the next one of its kind
\* and address one second before the interval ends, while a notification for
\* the other address has gone out in between
C34_Witness ==
    /\ call.op = "brute_force"
    /\ ~Passed
    /\ \E i, j \in 1..Len(dispatched) :
          /\ i < j
          /\ dispatched[i].kind = call.op
          /\ dispatched[i].ip = call.ip
          /\ ~dispatched[i].delivered
          /\ call.now - dispatched[i].at = rate_limit_seconds - 1
          /\ dispatched[j].kind = call.op
          /\ dispatched[j].ip # call.ip
          /\ dispatched[j].at > dispatched[i].at

\* the places of the detection hook among the hooks of a call
DetectionHooks(c) ==
    {k \in 1..Len(c.hooks) : c.hooks[k].hook = "notify_brute_force_detected"}

----------------------------------------------------------------------------
(* Claims about reconciliation *)

\* the set was listed, or created, by call c
SetSeen(c) == RanWith(c, "ipset_list", "ok") \/ RanWith(c, "ipset_create", "ok")

\* the rule was found, or inserted, by call c
RuleSeen(c) == RanWith(c, "iptables_check", "ok") \/ RanWith(c, "iptables_insert", "ok")

\* call c ended with its ok record
EndedOk(c) == c.appended = 1 /\ Last(ledger).status = "ok"

\* C36: ensure_firewall runs `iptables -I` only after its own list or create
\* exited zero, and writes its ok record only after that and after its own
\* check or insert exited zero; run without interference, an ok record means
\* that the set exists and the chain holds the rule.
C36_OkMeansReconciled ==
    call.op = "ensure_firewall"
    => /\ Ran(call, "iptables_insert") => SetSeen(call)
       /\ EndedOk(call)
          => SetSeen(call) /\ RuleSeen(call) /\ ipset_exists /\ rules >= 1

\* a call that had to create the set and insert the rule ended with ok
C36_Witness ==
    /\ call.op = "ensure_firewall"
    /\ EndedOk(call)
    /\ RanWith(call, "ipset_create", "ok")
    /\ RanWith(call, "iptables_insert", "ok")

\* what list_blocked returns for a set that exists and has no member
ListOfEmptySet(form) ==
    list_blocked([set |-> TRUE, members |-> NoMembers, rules |-> rules],
                 "none", form).ret

\* C37: when `ipset list` exits nonzero, list_blocked returns the empty
\* list, raises nothing, changes neither the backend nor the ledger, and
\* returns what it returns for a set that exists and is empty.
C37_FailedListingLooksEmpty ==
    [][(call'.op = "list_blocked" /\ call'.cmds[1].status = "fail")
       => /\ call'.ret = <<>>
          /\ ~call'.raised
          /\ UNCHANGED <<ipset_exists, members, rules, ledger>>
          /\ \A form \in HeaderForms : ListOfEmptySet(form) = call'.ret]_vars

----------------------------------------------------------------------------
(* Claims about start-up *)

\* a block has been attempted
BlockAttempted ==
    \/ call.op = "line" /\ call.decided
    \/ \E k \in 1..Len(ledger) : ledger[k].kind = "action" /\ ledger[k].action = "block"

\* C38: main runs ensure_firewall before parse_and_detect reads a line, so
\* every block comes after the start-up reconciliation; whatever
\* ensure_firewall met, main goes on to parse_and_detect; no line makes the
\* detector run the tools of ensure_firewall; and a decision taken while the
\* set is missing writes a block record with status error.
C38_EnsureThenDetect ==
    /\ BlockAttempted => ~Booting
    /\ ~Booting => Detecting
    /\ call.op = "line"
       => \A j \in 1..Len(call.cmds) : call.cmds[j].cmd = "ipset_add"
    /\ (call.op = "line" /\ call.decided /\ ~call.pre.ipset_exists)
       => /\ call.appended = 2
          /\ Last(ledger).action = "block"
          /\ Last(ledger).status = "error"

====
